---- MODULE Spec2Model ----
(***************************************************************************)
(* Retrieval engine of the legal-document search service: the relational   *)
(* store (Document, DocumentChunk), the vector index (VectorStore) and the *)
(* semantic / keyword / hybrid searches of SearchEngine and VectorStore.   *)
(*                                                                         *)
(* Texts are tuples of one-character strings.  Scores are integers in      *)
(* units of 1/Unit, weights are tenths, fused scores are in units of       *)
(* 1/(10*Unit).                                                            *)
(***************************************************************************)
EXTENDS Integers, Sequences, FiniteSets, TLC

\* ------------------------------------------------------------------ bounds
MaxDocs == 2
MaxLimit == 2
MaxOffset == 2
MaxWriters == 2
MaxEntries == 4

\* --------------------------------------------------------------- constants
\* the score 1.0 in integer units (min(score, 1.0))
Unit == 60
\* Python's None for Optional[int] / Optional[float] fields
None == 0 - 1000
\* Python's None for Optional[str] fields
NoneStr == "None"

Min(a, b) == IF a < b THEN a ELSE b

\* ------------------------------------------------------------ str helpers
\* str.lower() on the alphabet {"a", "A", "b", " "}
LowerChar(c) == IF c = "A" THEN "a" ELSE IF c = "B" THEN "b" ELSE c
Lower(t) == [i \in 1..Len(t) |-> LowerChar(t[i])]

IsSpace(c) == c = " "

\* len(text.split()): the number of maximal runs of non-whitespace
WordCount(t) ==
    Cardinality({i \in 1..Len(t) : ~IsSpace(t[i]) /\ (i = 1 \/ IsSpace(t[i-1]))})

\* text.split(): the maximal runs of non-whitespace, in order
RECURSIVE SplitFrom(_, _, _)
SplitFrom(t, i, cur) ==
    IF i > Len(t)
    THEN IF cur = <<>> THEN <<>> ELSE <<cur>>
    ELSE IF IsSpace(t[i])
         THEN (IF cur = <<>> THEN <<>> ELSE <<cur>>) \o SplitFrom(t, i + 1, <<>>)
         ELSE SplitFrom(t, i + 1, Append(cur, t[i]))
Split(t) == SplitFrom(t, 1, <<>>)

\* text.strip() == ""
StripIsEmpty(t) == \A i \in 1..Len(t) : IsSpace(t[i])

MatchAt(t, s, i) ==
    /\ i + Len(s) - 1 <= Len(t)
    /\ \A k \in 1..Len(s) : t[i + k - 1] = s[k]

\* str.count(sub): non-overlapping occurrences, scanning left to right
RECURSIVE CountFrom(_, _, _)
CountFrom(t, s, i) ==
    IF i + Len(s) - 1 > Len(t) THEN 0
    ELSE IF MatchAt(t, s, i) THEN 1 + CountFrom(t, s, i + Len(s))
         ELSE CountFrom(t, s, i + 1)
Count(t, s) == CountFrom(t, s, 1)

\* sub in text
Contains(t, s) == \E i \in 1..(Len(t) + 1) : MatchAt(t, s, i)

\* column.ilike('%term%')
ILike(t, term) == Contains(Lower(t), Lower(term))

\* ---------------------------------------------------------- list helpers
\* s[a:b] with 0 <= a <= b (Python slice on a list)
Slice(s, a, b) ==
    IF a >= Len(s) THEN <<>> ELSE SubSeq(s, a + 1, Min(b, Len(s)))

\* a descending sort that puts the later of two equal keys first
SortedDesc_TiesReversed(s, keys) ==
    LET before(j, i) == keys[j] > keys[i] \/ (keys[j] = keys[i] /\ j > i)
        rank(i) == Cardinality({j \in 1..Len(s) : before(j, i)}) + 1
    IN  [p \in 1..Len(s) |-> s[CHOOSE i \in 1..Len(s) : rank(i) = p]]

\* sorted(s, key=..., reverse=True) where keys[i] is the key of s[i]:
\* descending, stable
SortedDesc(s, keys) ==
    LET before(j, i) == keys[j] > keys[i] \/ (keys[j] = keys[i] /\ j < i)
        rank(i) == Cardinality({j \in 1..Len(s) : before(j, i)}) + 1
    IN  [p \in 1..Len(s) |-> s[CHOOSE i \in 1..Len(s) : rank(i) = p]]

\* the order in which the index returns entries, keys[i] the distance of
\* s[i]: ascending, equal distances in insertion order
SortedAsc(s, keys) ==
    LET before(j, i) == keys[j] < keys[i] \/ (keys[j] = keys[i] /\ j < i)
        rank(i) == Cardinality({j \in 1..Len(s) : before(j, i)}) + 1
    IN  [p \in 1..Len(s) |-> s[CHOOSE i \in 1..Len(s) : rank(i) = p]]

\* the final_score / keyword_score column of a result list
FinalScores(results) == [i \in 1..Len(results) |-> results[i].final_score]
KeywordScores(results) == [i \in 1..Len(results) |-> results[i].keyword_score]

RECURSIVE SumSeq(_)
SumSeq(s) == IF s = <<>> THEN 0 ELSE Head(s) + SumSeq(Tail(s))

Range(s) == {s[i] : i \in 1..Len(s)}


\* ------------------------------------------------------------ input sets
\* Document rows the ingestion paths can create: title, document_type,
\* jurisdiction, date_published, legal_concepts, citations
DocKinds ==
    { [title |-> <<"A">>, document_type |-> "statute", jurisdiction |-> "federal",
       date_published |-> 2, legal_concepts |-> {}, citations |-> {}],
      [title |-> <<"c">>, document_type |-> "contract", jurisdiction |-> NoneStr,
       date_published |-> None, legal_concepts |-> {<<"b">>}, citations |-> {}] }

\* chunk texts of one document, in chunk_index order
ChunkFiles ==
    { << <<"a", " ", "a">>, <<"a", "A", "a">> >>,
      << <<" ">>, <<"b", " ", "a">> >> }

\* query strings
Queries == { <<"a">>, <<"a", " ", "b">> }

NoFilters == [document_type |-> {}, jurisdiction |-> {},
              date_range |-> [start |-> None, end |-> None]]

\* the filters dictionary of a request
Filters ==
    { NoFilters,
      [NoFilters EXCEPT !.document_type = {"statute"}],
      [NoFilters EXCEPT !.jurisdiction = {"federal"},
                        !.date_range = [start |-> 1, end |-> None]] }

\* default semantic_weight / keyword_weight of hybrid_search, in tenths
DefaultSemanticWeight == 7
DefaultKeywordWeight == 3

\* (semantic_weight, keyword_weight) a caller of hybrid_search passes
Weights == { <<5, 5>> }

Limits == 1..MaxLimit
Offsets == 0..MaxOffset

\* ------------------------------------------------------------------ state
VARIABLES
    documents,          \* table documents: set of rows
    document_chunks,    \* table document_chunks: rows in primary-key order
    collection,         \* the vector index: entries in insertion order
    next_document_id,   \* autoincrement of documents.id
    next_chunk_id,      \* autoincrement of document_chunks.id
    response,           \* the outcome of the request being answered
    add_calls,          \* the add_document_chunks call of each writer
    delete_call,        \* the delete_document_chunks call in flight
    processor,          \* the DocumentProcessor call being answered
    in_flight           \* the operation of several steps that is under way

vars == <<documents, document_chunks, collection, next_document_id,
          next_chunk_id, response, add_calls, delete_call, processor,
          in_flight>>

\* the variables of the relational store and of the request, and the
\* operation under way
db_vars == <<documents, document_chunks, next_document_id, next_chunk_id, response,
             in_flight>>

\* the variables of the calls into VectorStore and DocumentProcessor, and the
\* operation under way
call_vars == <<add_calls, delete_call, processor, in_flight>>

NoResponse == [api |-> "none"]

\* the processes that write to the vector index
Writers == 1..MaxWriters

\* no call of the writer / of the deleter / of the processor is in flight
NoAddCall == [status |-> "idle"]
NoDeleteCall == [status |-> "idle"]
NoCall == [op |-> "none"]
\* no batch run, embedding update or hybrid query is under way
NoOperation == [op |-> "none"]

\* db.query(Document).filter(Document.id == d).first()
DocumentById(d) == CHOOSE doc \in documents : doc.id = d
DocumentExists(d) == \E doc \in documents : doc.id = d

\* ids that were handed out and whose row has been deleted
DeletedDocumentIds == {d \in 1..(next_document_id - 1) : ~DocumentExists(d)}

\* -------------------------------------------------------------- embedding
\* embedding_model.encode(text): the model is an external collaborator; it
\* is represented by one deterministic map of texts to one-dimensional
\* vectors 0..3
Encode(t) == (Count(Lower(t), <<"a">>) + 2 * Count(Lower(t), <<"b">>)) % 4

\* VectorStore.generate_embedding
generate_embedding(text) ==
    IF StripIsEmpty(text) THEN 0 ELSE Encode(text)

\* distance of the index between two vectors, in score units
Distance(u, v) == 10 * (u - v) * (u - v)

\* ------------------------------------------------------------- ingestion
Init ==
    /\ documents = {}
    /\ document_chunks = <<>>
    /\ collection = <<>>
    /\ next_document_id = 1
    /\ next_chunk_id = 1
    /\ response = NoResponse
    /\ add_calls = [w \in Writers |-> NoAddCall]
    /\ delete_call = NoDeleteCall
    /\ processor = NoCall
    /\ in_flight = NoOperation

\* DocumentProcessor._create_chunk_object for the i-th chunk text of a file
\* (chunk_index = i - 1), persisted with the next primary keys
ChunkRows(d, file) ==
    [i \in 1..Len(file) |->
        [id |-> next_chunk_id + i - 1, document_id |-> d,
         chunk_index |-> i - 1, text |-> file[i]]]

\* VectorStore.add_document_chunks: one entry per chunk, id
\* doc_{document_id}_chunk_{chunk_index}, metadata document_id / chunk_index
IndexEntries(chunks) ==
    [i \in 1..Len(chunks) |->
        [document_id |-> chunks[i].document_id,
         chunk_index |-> chunks[i].chunk_index,
         text |-> chunks[i].text,
         embedding |-> generate_embedding(chunks[i].text)]]

\* one pipeline run: a Document row with a fresh id, its chunks created,
\* saved and added to the vector index
ingest_document(kind, file) ==
    /\ response = NoResponse
    /\ next_document_id <= MaxDocs
    /\ documents' = documents \cup
          { [id |-> next_document_id, title |-> kind.title,
             document_type |-> kind.document_type,
             jurisdiction |-> kind.jurisdiction,
             date_published |-> kind.date_published,
             legal_concepts |-> kind.legal_concepts,
             citations |-> kind.citations,
             processing_status |-> "completed"] }
    /\ next_document_id' = next_document_id + 1
    /\ LET chunks == ChunkRows(next_document_id, file)
       IN  /\ document_chunks' = document_chunks \o chunks
           /\ collection' = collection \o IndexEntries(chunks)
           /\ next_chunk_id' = next_chunk_id + Len(chunks)
    /\ response' = NoResponse
    /\ UNCHANGED call_vars

\* DELETE /documents/{document_id}: the row is deleted, the delete cascades
\* to the document's chunks; the handler does not touch the vector index
delete_document(d) ==
    /\ response = NoResponse
    /\ DocumentExists(d)
    /\ documents' = documents \ {DocumentById(d)}
    /\ document_chunks' =
          SelectSeq(document_chunks, LAMBDA c : c.document_id # d)
    /\ response' = NoResponse
    /\ UNCHANGED <<collection, next_document_id, next_chunk_id>>
    /\ UNCHANGED call_vars

\* ---------------------------------------------------------- vector store
\* collection.query(query_embeddings=[embedding], n_results=n): the n
\* entries nearest to the embedding, nearest first
NearestEntries(embedding, n) ==
    Slice(SortedAsc(collection,
                    [i \in 1..Len(collection) |->
                        Distance(embedding, collection[i].embedding)]),
          0, n)

\* one formatted result of the index: similarity = 1 - distance
FormattedResult(entry, embedding) ==
    [text |-> entry.text,
     similarity_score |-> Unit - Distance(embedding, entry.embedding),
     document_id |-> entry.document_id,
     chunk_index |-> entry.chunk_index]

FormattedResults(entries, embedding) ==
    [i \in 1..Len(entries) |-> FormattedResult(entries[i], embedding)]

\* VectorStore.semantic_search: the limit nearest entries, nearest first,
\* similarity = 1 - distance; the where clause stays empty whatever the
\* filters are
VectorStore_semantic_search(query, limit, filters) ==
    FormattedResults(NearestEntries(generate_embedding(query), limit),
                     generate_embedding(query))

\* the term-frequency sum of VectorStore._keyword_search for one entry
\* (no clamp); the caller rules out a text without words
StoreKeywordScore(doc, query_terms) ==
    SumSeq([k \in 1..Len(query_terms) |->
              (Count(Lower(doc), query_terms[k]) * Unit) \div WordCount(Lower(doc))])

\* VectorStore._keyword_search: every entry with a positive score, best
\* first; a division by zero words is caught and gives no results
StoreKeywordResult(entry, query_terms) ==
    [text |-> entry.text,
     keyword_score |-> StoreKeywordScore(entry.text, query_terms),
     document_id |-> entry.document_id,
     chunk_index |-> entry.chunk_index]

SortedByKeywordScore(results) == SortedDesc(results, KeywordScores(results))

StoreKeywordResults(query_terms, limit) ==
    IF /\ query_terms # <<>>
       /\ \E i \in 1..Len(collection) : WordCount(Lower(collection[i].text)) = 0
    THEN <<>>
    ELSE Slice(SortedByKeywordScore(
                  SelectSeq([i \in 1..Len(collection) |->
                                StoreKeywordResult(collection[i], query_terms)],
                            LAMBDA r : r.keyword_score > 0)),
               0, limit)

VectorStore_keyword_search(query, limit, filters) ==
    StoreKeywordResults(Split(Lower(query)), limit)

\* combined_results[key] = value on an insertion-ordered dict kept as a
\* sequence of [key, value] records
DictSet(dict, key, value) ==
    IF \E i \in 1..Len(dict) : dict[i].key = key
    THEN [i \in 1..Len(dict) |->
            IF dict[i].key = key THEN [key |-> key, value |-> value] ELSE dict[i]]
    ELSE Append(dict, [key |-> key, value |-> value])

DictHas(dict, key) == \E i \in 1..Len(dict) : dict[i].key = key
DictGet(dict, key) == (CHOOSE e \in Range(dict) : e.key = key).value
DictValues(dict) == [i \in 1..Len(dict) |-> dict[i].value]

\* chunk_id = f"{document_id}_{chunk_index}" of VectorStore.hybrid_search
StoreChunkId(result) == <<result.document_id, result.chunk_index>>

\* the entry of a semantic result in combined_results
StoreSemanticOnly(result, semantic_weight) ==
    [text |-> result.text,
     document_id |-> result.document_id,
     chunk_index |-> result.chunk_index,
     semantic_score |-> result.similarity_score,
     keyword_score |-> 0,
     final_score |-> result.similarity_score * semantic_weight]

\* the entry of a keyword result whose chunk is not in combined_results
StoreKeywordOnly(result, keyword_weight) ==
    [text |-> result.text,
     document_id |-> result.document_id,
     chunk_index |-> result.chunk_index,
     semantic_score |-> 0,
     keyword_score |-> result.keyword_score,
     final_score |-> result.keyword_score * keyword_weight]

\* the update of an entry already in combined_results by a keyword result
StoreMerged(existing, result, semantic_weight, keyword_weight) ==
    [existing EXCEPT
        !.keyword_score = result.keyword_score,
        !.final_score = existing.semantic_score * semantic_weight
                        + result.keyword_score * keyword_weight]

\* sorted(combined_results.values(), key=final_score, reverse=True)
SortedByFinalScore(values) == SortedDesc(values, FinalScores(values))

\* the first loop of VectorStore.hybrid_search
RECURSIVE StoreAddSemantic(_, _, _)
StoreAddSemantic(combined, semantic_results, semantic_weight) ==
    IF semantic_results = <<>> THEN combined
    ELSE StoreAddSemantic(
            DictSet(combined, StoreChunkId(Head(semantic_results)),
                    StoreSemanticOnly(Head(semantic_results), semantic_weight)),
            Tail(semantic_results), semantic_weight)

\* the second loop of VectorStore.hybrid_search
RECURSIVE StoreAddKeyword(_, _, _, _)
StoreAddKeyword(combined, keyword_results, semantic_weight, keyword_weight) ==
    IF keyword_results = <<>> THEN combined
    ELSE StoreAddKeyword(
            DictSet(combined, StoreChunkId(Head(keyword_results)),
                    IF DictHas(combined, StoreChunkId(Head(keyword_results)))
                    THEN StoreMerged(DictGet(combined, StoreChunkId(Head(keyword_results))),
                                     Head(keyword_results), semantic_weight, keyword_weight)
                    ELSE StoreKeywordOnly(Head(keyword_results), keyword_weight)),
            Tail(keyword_results), semantic_weight, keyword_weight)

\* VectorStore.hybrid_search: the fused, sorted values before [:limit]
VectorStore_hybrid_sorted(semantic_results, keyword_results, semantic_weight, keyword_weight) ==
    SortedByFinalScore(DictValues(
        StoreAddKeyword(StoreAddSemantic(<<>>, semantic_results, semantic_weight),
                        keyword_results, semantic_weight, keyword_weight)))


\* --------------------------------------------------------- search engine
\* (x or 0)
OrZero(x) == IF x = None THEN 0 ELSE x

\* SearchEngine._calculate_keyword_score: sum of count / total_words over
\* the terms, at most 1.0; any exception (no words in the text) gives 0.0
TermFrequencySum(text_lower, total_words, search_terms) ==
    IF search_terms # <<>> /\ total_words = 0 THEN 0
    ELSE Min(SumSeq([k \in 1..Len(search_terms) |->
                (Count(text_lower, Lower(search_terms[k])) * Unit) \div total_words]),
             Unit)

calculate_keyword_score(text, search_terms) ==
    TermFrequencySum(Lower(text), WordCount(Lower(text)), search_terms)

\* the filter predicates SearchEngine.keyword_search adds to its query; a
\* NULL column never satisfies a comparison
PassesFilters(doc, filters) ==
    /\ filters.document_type # {} => doc.document_type \in filters.document_type
    /\ filters.jurisdiction # {} => doc.jurisdiction \in filters.jurisdiction
    /\ filters.date_range.start # None =>
          (doc.date_published # None /\ doc.date_published >= filters.date_range.start)
    /\ filters.date_range.end # None =>
          (doc.date_published # None /\ doc.date_published <= filters.date_range.end)

\* the text conditions SearchEngine.keyword_search adds to its query
MatchesTerms(chunk, doc, search_terms) ==
    search_terms # <<>> =>
        \E k \in 1..Len(search_terms) :
            \/ ILike(chunk.text, search_terms[k])
            \/ ILike(doc.title, search_terms[k])
            \/ search_terms[k] \in doc.legal_concepts
            \/ search_terms[k] \in doc.citations

\* the result SearchEngine.semantic_search builds of one vector result
\* whose document row exists
SemanticResult(result, document) ==
    [document_id |-> result.document_id,
     chunk_id |-> result.chunk_index,
     document_type |-> document.document_type,
     jurisdiction |-> document.jurisdiction,
     chunk_text |-> result.text,
     semantic_score |-> result.similarity_score,
     keyword_score |-> None,
     final_score |-> result.similarity_score]

SemanticResults(found) ==
    [i \in 1..Len(found) |->
        SemanticResult(found[i], DocumentById(found[i].document_id))]

\* SearchEngine.semantic_search; raises: an exception inside the try block
SearchEngine_semantic_search(query, limit, offset, filters, raises) ==
    IF raises THEN <<>>
    ELSE SemanticResults(
            SelectSeq(Slice(VectorStore_semantic_search(query, limit + offset, filters),
                            offset, offset + limit),
                      LAMBDA r : DocumentExists(r.document_id)))

\* the rows of the joined query of SearchEngine.keyword_search, in
\* primary-key order
MatchingRow(chunk, document, search_terms, filters) ==
    /\ MatchesTerms(chunk, document, search_terms)
    /\ PassesFilters(document, filters)

MatchingChunks(search_terms, filters) ==
    SelectSeq(document_chunks, LAMBDA c :
        /\ DocumentExists(c.document_id)
        /\ MatchingRow(c, DocumentById(c.document_id), search_terms, filters))

\* the result SearchEngine.keyword_search builds of one row
KeywordResult(chunk, document, keyword_score) ==
    [document_id |-> chunk.document_id,
     chunk_id |-> chunk.id,
     document_type |-> document.document_type,
     jurisdiction |-> document.jurisdiction,
     chunk_text |-> chunk.text,
     semantic_score |-> None,
     keyword_score |-> keyword_score,
     final_score |-> keyword_score]

KeywordResults(chunks, search_terms) ==
    [i \in 1..Len(chunks) |->
        KeywordResult(chunks[i], DocumentById(chunks[i].document_id),
                      calculate_keyword_score(chunks[i].text, search_terms))]

\* search_results.sort(key=lambda x: x.keyword_score or 0, reverse=True)
SortedByKeywordScoreOrZero(search_results) ==
    SortedDesc(search_results,
               [i \in 1..Len(search_results) |-> OrZero(search_results[i].keyword_score)])

\* SearchEngine.keyword_search; raises: an exception inside the try block
SearchEngine_keyword_search(query, limit, offset, filters, raises) ==
    IF raises THEN <<>>
    ELSE SortedByKeywordScoreOrZero(
            KeywordResults(Slice(MatchingChunks(Split(query), filters),
                                 offset, offset + limit),
                           Split(query)))

\* the key of SearchEngine.hybrid_search: f"{document_id}_{chunk_id}"
ResultKey(result) == <<result.document_id, result.chunk_id>>

\* result.final_score = (result.semantic_score or 0) * semantic_weight
EngineSemanticOnly(result, semantic_weight) ==
    [result EXCEPT !.final_score = OrZero(result.semantic_score) * semantic_weight]

\* a keyword-only result that keeps the final_score keyword_search gave it
EngineKeywordOnly_Unweighted(result, keyword_weight) == result

\* result.final_score = (result.keyword_score or 0) * keyword_weight
EngineKeywordOnly(result, keyword_weight) ==
    [result EXCEPT !.final_score = OrZero(result.keyword_score) * keyword_weight]

\* the update of an entry already in combined_results by a keyword result
EngineMerged(existing, result, semantic_weight, keyword_weight) ==
    [existing EXCEPT
        !.keyword_score = result.keyword_score,
        !.final_score = OrZero(existing.semantic_score) * semantic_weight
                        + OrZero(result.keyword_score) * keyword_weight]

\* the first loop of SearchEngine.hybrid_search
RECURSIVE EngineAddSemantic(_, _, _)
EngineAddSemantic(combined, semantic_results, semantic_weight) ==
    IF semantic_results = <<>> THEN combined
    ELSE EngineAddSemantic(
            DictSet(combined, ResultKey(Head(semantic_results)),
                    EngineSemanticOnly(Head(semantic_results), semantic_weight)),
            Tail(semantic_results), semantic_weight)

\* the second loop of SearchEngine.hybrid_search
RECURSIVE EngineAddKeyword(_, _, _, _)
EngineAddKeyword(combined, keyword_results, semantic_weight, keyword_weight) ==
    IF keyword_results = <<>> THEN combined
    ELSE EngineAddKeyword(
            DictSet(combined, ResultKey(Head(keyword_results)),
                    IF DictHas(combined, ResultKey(Head(keyword_results)))
                    THEN EngineMerged(DictGet(combined, ResultKey(Head(keyword_results))),
                                      Head(keyword_results), semantic_weight, keyword_weight)
                    ELSE EngineKeywordOnly(Head(keyword_results), keyword_weight)),
            Tail(keyword_results), semantic_weight, keyword_weight)

\* combined_results of SearchEngine.hybrid_search after both loops
EngineCombined(semantic_results, keyword_results, semantic_weight, keyword_weight) ==
    EngineAddKeyword(EngineAddSemantic(<<>>, semantic_results, semantic_weight),
                     keyword_results, semantic_weight, keyword_weight)

\* how many candidates SearchEngine.hybrid_search asks of each branch
BranchFetch(limit, offset) == limit * 2

\* what SearchEngine.hybrid_search produces: the branch results, the fused
\* and sorted sequence and the page returned
HybridOutcome(semantic_results, keyword_results, sorted_results, limit, offset) ==
    [semantic_results |-> semantic_results,
     keyword_results |-> keyword_results,
     sorted_results |-> sorted_results,
     paginated_results |-> Slice(sorted_results, offset, offset + limit)]

\* the fusion, sort and pagination of SearchEngine.hybrid_search
FuseBranches(semantic_results, keyword_results, limit, offset, sw, kw) ==
    HybridOutcome(semantic_results, keyword_results,
                  SortedByFinalScore(DictValues(
                      EngineCombined(semantic_results, keyword_results, sw, kw))),
                  limit, offset)

\* a hybrid_search whose branches let their exception escape to the outer
\* handler, which returns nothing at all
SearchEngine_hybrid_search_Propagating(query, limit, offset, filters, sw, kw, sem_raises, kw_raises) ==
    IF sem_raises \/ kw_raises
    THEN HybridOutcome(
            SearchEngine_semantic_search(query, BranchFetch(limit, offset), 0,
                                         filters, sem_raises),
            SearchEngine_keyword_search(query, BranchFetch(limit, offset), 0,
                                        filters, kw_raises),
            <<>>, limit, offset)
    ELSE FuseBranches(
            SearchEngine_semantic_search(query, BranchFetch(limit, offset), 0,
                                         filters, sem_raises),
            SearchEngine_keyword_search(query, BranchFetch(limit, offset), 0,
                                        filters, kw_raises),
            limit, offset, sw, kw)

\* SearchEngine.hybrid_search: both branches are asked for limit * 2
\* candidates from offset 0
SearchEngine_hybrid_search(query, limit, offset, filters, sw, kw, sem_raises, kw_raises) ==
    FuseBranches(
        SearchEngine_semantic_search(query, BranchFetch(limit, offset), 0,
                                     filters, sem_raises),
        SearchEngine_keyword_search(query, BranchFetch(limit, offset), 0,
                                    filters, kw_raises),
        limit, offset, sw, kw)


\* SearchEngine._log_search: the rows one call adds to table search_results
LogRows(results, search_type) ==
    [search_type |-> search_type, rows |-> Len(results)]

\* which parts of a request raise: the SearchEngine constructor, the
\* semantic branch, the keyword branch
Faults == [construct : BOOLEAN, semantic : BOOLEAN, keyword : BOOLEAN]
NoFaults == [construct |-> FALSE, semantic |-> FALSE, keyword |-> FALSE]

\* the rows the branches and the hybrid call log, in order; a branch that
\* raised logged nothing
HybridLogged(h, faults) ==
    (IF faults.semantic THEN <<>> ELSE << LogRows(h.semantic_results, "semantic") >>)
    \o (IF faults.keyword THEN <<>> ELSE << LogRows(h.keyword_results, "keyword") >>)
    \o << LogRows(h.paginated_results, "hybrid") >>

\* the outcome h of SearchEngine.hybrid_search as a response
HybridResponse(api, query, limit, offset, filters, sw, kw, faults, h) ==
    [api |-> api, search_type |-> "hybrid", query |-> query, limit |-> limit,
     offset |-> offset, filters |-> filters, weights |-> <<sw, kw>>,
     faults |-> faults, status |-> "ok",
     fetched |-> BranchFetch(limit, offset),
     semantic_results |-> h.semantic_results,
     keyword_results |-> h.keyword_results,
     sorted_results |-> h.sorted_results,
     results |-> h.paginated_results,
     logged |-> HybridLogged(h, faults)]

\* the outcome of SearchEngine.semantic_search as a response
SemanticResponse(query, limit, offset, filters, faults, results) ==
    [api |-> "search_documents", search_type |-> "semantic", query |-> query,
     limit |-> limit, offset |-> offset, filters |-> filters,
     weights |-> <<DefaultSemanticWeight, DefaultKeywordWeight>>,
     faults |-> faults, status |-> "ok", fetched |-> limit + offset,
     semantic_results |-> results, keyword_results |-> <<>>,
     sorted_results |-> results, results |-> results,
     logged |-> IF faults.semantic THEN <<>>
                ELSE << LogRows(results, "semantic") >>]

\* the outcome of SearchEngine.keyword_search as a response
KeywordResponse(query, limit, offset, filters, faults, results) ==
    [api |-> "search_documents", search_type |-> "keyword", query |-> query,
     limit |-> limit, offset |-> offset, filters |-> filters,
     weights |-> <<DefaultSemanticWeight, DefaultKeywordWeight>>,
     faults |-> faults, status |-> "ok", fetched |-> limit,
     semantic_results |-> <<>>, keyword_results |-> results,
     sorted_results |-> results, results |-> results,
     logged |-> IF faults.keyword THEN <<>>
                ELSE << LogRows(results, "keyword") >>]

\* HTTP 500: the exception reached the handler
ErrorResponse(search_type, faults) ==
    [api |-> "search_documents", search_type |-> search_type, query |-> <<>>,
     limit |-> 0, offset |-> 0, filters |-> NoFilters,
     weights |-> <<DefaultSemanticWeight, DefaultKeywordWeight>>,
     faults |-> faults, status |-> "error", fetched |-> 0,
     semantic_results |-> <<>>, keyword_results |-> <<>>,
     sorted_results |-> <<>>, results |-> <<>>, logged |-> <<>>]

\* POST /search: dispatch on search_type; an exception that reaches the
\* handler (the constructor's) becomes HTTP 500, everything else is a
\* SearchResponse
search_documents(search_type, query, limit, offset, filters, faults) ==
    /\ response = NoResponse
    /\ search_type = "semantic" => ~faults.keyword
    /\ search_type = "keyword" => ~faults.semantic
    /\ faults.construct => (~faults.semantic /\ ~faults.keyword)
    /\ response' =
        IF faults.construct
        THEN ErrorResponse(search_type, faults)
        ELSE IF search_type = "semantic"
        THEN SemanticResponse(query, limit, offset, filters, faults,
                SearchEngine_semantic_search(query, limit, offset, filters,
                                             faults.semantic))
        ELSE IF search_type = "keyword"
        THEN KeywordResponse(query, limit, offset, filters, faults,
                SearchEngine_keyword_search(query, limit, offset, filters,
                                            faults.keyword))
        ELSE HybridResponse("search_documents", query, limit, offset, filters,
                DefaultSemanticWeight, DefaultKeywordWeight, faults,
                SearchEngine_hybrid_search(query, limit, offset, filters,
                    DefaultSemanticWeight, DefaultKeywordWeight,
                    faults.semantic, faults.keyword))
    /\ UNCHANGED <<documents, document_chunks, collection, next_document_id,
                   next_chunk_id>>
    /\ UNCHANGED call_vars

\* SearchEngine.hybrid_search called by a service with its own weights
hybrid_search(query, limit, offset, filters, weights, faults) ==
    /\ response = NoResponse
    /\ ~faults.construct
    /\ response' = HybridResponse("hybrid_search", query, limit, offset, filters,
                        weights[1], weights[2], faults,
                        SearchEngine_hybrid_search(query, limit, offset, filters,
                            weights[1], weights[2], faults.semantic, faults.keyword))
    /\ UNCHANGED <<documents, document_chunks, collection, next_document_id,
                   next_chunk_id>>
    /\ UNCHANGED call_vars

\* the outcome of VectorStore.hybrid_search as a response
StoreHybridResponse(query, weights, limit, filters, semantic_results, keyword_results, sorted_results) ==
    [api |-> "store_hybrid_search", search_type |-> "hybrid", query |-> query,
     limit |-> limit, offset |-> 0, filters |-> filters, weights |-> weights,
     faults |-> NoFaults, status |-> "ok", fetched |-> limit * 2,
     semantic_results |-> semantic_results,
     keyword_results |-> keyword_results,
     sorted_results |-> sorted_results,
     results |-> Slice(sorted_results, 0, limit),
     logged |-> <<>>]

\* VectorStore.hybrid_search on the branch results
StoreFuseBranches(query, weights, limit, filters, semantic_results, keyword_results) ==
    StoreHybridResponse(query, weights, limit, filters,
        semantic_results, keyword_results,
        VectorStore_hybrid_sorted(semantic_results, keyword_results,
                                  weights[1], weights[2]))

\* VectorStore.hybrid_search
store_hybrid_search(query, weights, limit, filters) ==
    /\ response = NoResponse
    /\ response' = StoreFuseBranches(query, weights, limit, filters,
                        VectorStore_semantic_search(query, limit * 2, filters),
                        VectorStore_keyword_search(query, limit * 2, filters))
    /\ UNCHANGED <<documents, document_chunks, collection, next_document_id,
                   next_chunk_id>>
    /\ UNCHANGED call_vars

\* the entry of the index stored under doc_{document_id}_chunk_{chunk_index}
IsEntry(e, document_id, chunk_index) ==
    e.document_id = document_id /\ e.chunk_index = chunk_index

\* the neighbours of an embedding with the query entry left out, at most
\* limit of them
SimilarTo(chunk_embedding, document_id, chunk_index, limit) ==
    FormattedResults(
        Slice(SelectSeq(NearestEntries(chunk_embedding, limit + 1),
                        LAMBDA e : ~IsEntry(e, document_id, chunk_index)),
              0, limit),
        chunk_embedding)

\* VectorStore.find_similar_chunks: the entries nearest to the entry
\* (document_id, chunk_index), that entry left out, at most limit of them
VectorStore_find_similar_chunks(document_id, chunk_index, limit) ==
    IF ~\E i \in 1..Len(collection) : IsEntry(collection[i], document_id, chunk_index)
    THEN <<>>
    ELSE SimilarTo((CHOOSE e \in Range(collection) :
                        IsEntry(e, document_id, chunk_index)).embedding,
                   document_id, chunk_index, limit)

\* the documents of similar_results, document_id and documents without a
\* row left out
SimilarDocuments(similar_results, document_id) ==
    [similar_results |-> similar_results,
     similar_docs |->
        {d \in {similar_results[i].document_id : i \in 1..Len(similar_results)}
                   \ {document_id} : DocumentExists(d)}]

\* the chunks of a document, first chunk first
ChunksOf(document_id) ==
    SelectSeq(document_chunks, LAMBDA c : c.document_id = document_id)

\* SearchEngine.find_similar_documents: the documents of the chunks similar
\* to the first chunk of document_id
SearchEngine_find_similar_documents(document_id, limit) ==
    IF ChunksOf(document_id) = <<>>
    THEN [similar_results |-> <<>>, similar_docs |-> {}]
    ELSE SimilarDocuments(
            VectorStore_find_similar_chunks(ChunksOf(document_id)[1].document_id,
                                            ChunksOf(document_id)[1].chunk_index,
                                            limit * 3),
            document_id)

\* the outcome f of SearchEngine.find_similar_documents as a response
SimilarResponse(limit, f) ==
    [api |-> "find_similar_documents", search_type |-> "similar",
     query |-> <<>>, limit |-> limit, offset |-> 0, filters |-> NoFilters,
     weights |-> <<DefaultSemanticWeight, DefaultKeywordWeight>>,
     faults |-> NoFaults, status |-> "ok", fetched |-> limit * 3,
     semantic_results |-> f.similar_results,
     keyword_results |-> <<>>,
     sorted_results |-> <<>>,
     results |-> f.similar_docs,
     logged |-> <<>>]

\* GET /search/similar/{document_id}
find_similar_documents(document_id, limit) ==
    /\ response = NoResponse
    /\ response' = SimilarResponse(limit,
                        SearchEngine_find_similar_documents(document_id, limit))
    /\ UNCHANGED <<documents, document_chunks, collection, next_document_id,
                   next_chunk_id>>
    /\ UNCHANGED call_vars

\* the handler returns: the response leaves the server
return_response ==
    /\ response # NoResponse
    /\ response' = NoResponse
    /\ UNCHANGED <<documents, document_chunks, collection, next_document_id,
                   next_chunk_id>>
    /\ UNCHANGED call_vars

SearchTypes == {"semantic", "keyword", "hybrid"}

Next ==
    \/ \E kind \in DocKinds, file \in ChunkFiles : ingest_document(kind, file)
    \/ \E d \in 1..MaxDocs : delete_document(d)
    \* a search is only taken up when no response is waiting: the guard of
    \* the searches, stated before their inputs are drawn
    \/ /\ response = NoResponse
       /\ \E search_type \in SearchTypes, query \in Queries, limit \in Limits,
             offset \in Offsets, filters \in Filters, faults \in Faults :
             search_documents(search_type, query, limit, offset, filters, faults)
    \/ /\ response = NoResponse
       /\ \E query \in Queries, limit \in Limits, offset \in Offsets,
             filters \in Filters, weights \in Weights, faults \in Faults :
             hybrid_search(query, limit, offset, filters, weights, faults)
    \/ /\ response = NoResponse
       /\ \E query \in Queries, weights \in Weights, limit \in Limits,
             filters \in Filters :
             store_hybrid_search(query, weights, limit, filters)
    \/ \E d \in 1..MaxDocs, limit \in Limits : find_similar_documents(d, limit)
    \/ return_response


\* ------------------------------------------------------ request validation
\* validate_limit: "limit cannot exceed 50"
MaxSearchLimit == 50

\* pydantic's validation of SearchQuery: validate_search_type and
\* validate_limit; the model has no validator for offset and none for a
\* limit below zero
SearchQueryIsValid(search_type, limit, offset) ==
    /\ search_type \in SearchTypes
    /\ limit <= MaxSearchLimit

\* s[a:b] of a Python list for any integers a and b: a negative index counts
\* from the end
PySlice(s, a, b) ==
    LET from == IF a < 0 THEN (IF Len(s) + a < 0 THEN 0 ELSE Len(s) + a)
                ELSE Min(a, Len(s))
        to == IF b < 0 THEN (IF Len(s) + b < 0 THEN 0 ELSE Len(s) + b)
              ELSE Min(b, Len(s))
    IN  IF from >= to THEN <<>> ELSE SubSeq(s, from + 1, to)

\* SearchEngine.semantic_search for any integers limit and offset: the index
\* refuses n_results below 1 and VectorStore.semantic_search then returns []
SemanticPage(query, limit, offset) ==
    LET vector_results ==
            IF limit + offset < 1 THEN <<>>
            ELSE VectorStore_semantic_search(query, limit + offset, NoFilters)
    IN  SemanticResults(
            SelectSeq(PySlice(vector_results, offset, offset + limit),
                      LAMBDA r : DocumentExists(r.document_id)))

\* the markup of _highlight_text
OpenTag == <<"<", "m", "a", "r", "k", ">">>
CloseTag == <<"<", "/", "m", "a", "r", "k", ">">>

\* re.compile(re.escape(term), re.IGNORECASE).sub("<mark>" + term + "</mark>",
\* text) from position i on: the matches from left to right, none
\* overlapping, each replaced by the term as the query spells it
RECURSIVE SubMark(_, _, _)
SubMark(text, term, i) ==
    IF i > Len(text) THEN <<>>
    ELSE IF MatchAt(Lower(text), Lower(term), i)
    THEN OpenTag \o term \o CloseTag \o SubMark(text, term, i + Len(term))
    ELSE <<text[i]>> \o SubMark(text, term, i + 1)

\* SearchEngine._highlight_text: the terms of query.split() are substituted
\* one after the other, each in the outcome of the one before
RECURSIVE HighlightTerms(_, _)
HighlightTerms(highlighted, terms) ==
    IF terms = <<>> THEN highlighted
    ELSE HighlightTerms(SubMark(highlighted, Head(terms), 1), Tail(terms))

\* highlighted_text of each result of the page
HighlightedTexts(results, query) ==
    [i \in 1..Len(results) |->
        HighlightTerms(results[i].chunk_text, Split(query))]

\* POST /search with search_type "semantic" or a search_type the API does
\* not know: FastAPI answers 422 when SearchQuery does not validate and
\* calls no handler; otherwise search_documents dispatches the semantic
\* branch, which queries the index and logs its results
search_request(search_type, query, limit, offset) ==
    /\ response = NoResponse
    /\ search_type \notin {"keyword", "hybrid"}
    /\ response' =
          IF ~SearchQueryIsValid(search_type, limit, offset)
          THEN [api |-> "search_request", search_type |-> search_type,
                limit |-> limit, offset |-> offset, status |-> 422,
                queries_run |-> {}, query |-> query, results |-> <<>>,
                highlighted |-> <<>>, logged |-> <<>>]
          ELSE [api |-> "search_request", search_type |-> search_type,
                limit |-> limit, offset |-> offset, status |-> 200,
                queries_run |-> {"semantic"}, query |-> query,
                results |-> SemanticPage(query, limit, offset),
                highlighted |->
                    HighlightedTexts(SemanticPage(query, limit, offset), query),
                logged |-> << LogRows(SemanticPage(query, limit, offset),
                                      "semantic") >>]
    /\ UNCHANGED <<documents, document_chunks, collection, next_document_id,
                   next_chunk_id>>
    /\ UNCHANGED call_vars

\* the limits and offsets of the requests: in range, below zero, above 50
RequestLimits == {0 - 1, 1, 2, MaxSearchLimit + 1}
RequestOffsets == {0 - 1, 0, 1}

NextRequest ==
    \/ \E kind \in DocKinds, file \in ChunkFiles : ingest_document(kind, file)
    \/ /\ response = NoResponse
       /\ \E search_type \in {"semantic", "fuzzy"},
             query \in Queries \cup { <<"b", " ", "a">> },
             limit \in RequestLimits, offset \in RequestOffsets :
             search_request(search_type, query, limit, offset)
    \/ return_response

SpecRequest == Init /\ [][NextRequest]_vars
Spec == Init /\ [][Next]_vars


\* ------------------------------------------------- steps of a hybrid query
\* SearchEngine.hybrid_search up to its first await: the coroutine of
\* semantic_search is created and awaited; events is the order in which the
\* branches were dispatched and completed
hybrid_call(query, limit) ==
    /\ in_flight = NoOperation
    /\ response = NoResponse
    /\ in_flight' = [op |-> "hybrid_search", query |-> query, limit |-> limit,
                     awaiting |-> "semantic", semantic_results |-> <<>>,
                     semantic_raised |-> FALSE,
                     events |-> << "semantic_dispatched" >>]
    /\ UNCHANGED <<documents, document_chunks, collection, next_document_id,
                   next_chunk_id, response, add_calls, delete_call, processor>>

\* semantic_search returns, with [] when it raised; hybrid_search goes on to
\* its second await, that of keyword_search
hybrid_semantic_done(raises) ==
    /\ in_flight.op = "hybrid_search"
    /\ in_flight.awaiting = "semantic"
    /\ in_flight' =
          [in_flight EXCEPT
              !.awaiting = "keyword",
              !.semantic_raised = raises,
              !.semantic_results =
                  SearchEngine_semantic_search(in_flight.query,
                      BranchFetch(in_flight.limit, 0), 0, NoFilters, raises),
              !.events = @ \o << "semantic_completed", "keyword_dispatched" >>]
    /\ UNCHANGED <<documents, document_chunks, collection, next_document_id,
                   next_chunk_id, response, add_calls, delete_call, processor>>

\* keyword_search returns, with [] when it raised; the results of the two
\* branches are merged, sorted, cut to the page and logged
hybrid_keyword_done(raises) ==
    /\ in_flight.op = "hybrid_search"
    /\ in_flight.awaiting = "keyword"
    /\ in_flight' =
          [in_flight EXCEPT
              !.awaiting = "nothing",
              !.events = @ \o << "keyword_completed", "merged" >>]
    /\ response' =
          HybridResponse("hybrid_search", in_flight.query, in_flight.limit, 0,
              NoFilters, DefaultSemanticWeight, DefaultKeywordWeight,
              [construct |-> FALSE, semantic |-> in_flight.semantic_raised,
               keyword |-> raises],
              FuseBranches(in_flight.semantic_results,
                  SearchEngine_keyword_search(in_flight.query,
                      BranchFetch(in_flight.limit, 0), 0, NoFilters, raises),
                  in_flight.limit, 0, DefaultSemanticWeight,
                  DefaultKeywordWeight))
    /\ UNCHANGED <<documents, document_chunks, collection, next_document_id,
                   next_chunk_id, add_calls, delete_call, processor>>

\* hybrid_search returns its page to the caller
hybrid_return ==
    /\ in_flight.op = "hybrid_search"
    /\ in_flight.awaiting = "nothing"
    /\ in_flight' = NoOperation
    /\ response' = NoResponse
    /\ UNCHANGED <<documents, document_chunks, collection, next_document_id,
                   next_chunk_id, add_calls, delete_call, processor>>

NextHybrid ==
    \/ \E kind \in DocKinds, file \in ChunkFiles : ingest_document(kind, file)
    \/ \E query \in Queries, limit \in Limits : hybrid_call(query, limit)
    \/ \E raises \in BOOLEAN : hybrid_semantic_done(raises)
    \/ \E raises \in BOOLEAN : hybrid_keyword_done(raises)
    \/ hybrid_return

SpecHybrid == Init /\ [][NextHybrid]_vars

\* ------------------------------------------------- writers of the index
\* documents whose chunks the writers add and the deleter deletes
StoreDocs == {1, 2}

\* np.zeros(get_sentence_embedding_dimension())
ZeroVector == 0

\* what a generate_embedding that lets the encoder's exception escape
\* hands to its caller
EmbeddingRaised == 0 - 1

\* a generate_embedding without the except clause
generate_embedding_Propagating(text, encode_raises) ==
    IF StripIsEmpty(text) THEN ZeroVector
    ELSE IF encode_raises THEN EmbeddingRaised
    ELSE Encode(text)

\* VectorStore.generate_embedding, the encoder raising or not: the empty
\* text and the caught exception both give the zero vector
generate_embedding_caught(text, encode_raises) ==
    IF StripIsEmpty(text) THEN ZeroVector
    ELSE IF encode_raises THEN ZeroVector
    ELSE Encode(text)

\* the chunks handed to add_document_chunks for a file of document d
StoreChunks(d, file) ==
    [i \in 1..Len(file) |->
        [document_id |-> d, chunk_index |-> i - 1, text |-> file[i]]]

\* the id of an entry: doc_{document_id}_chunk_{chunk_index}
EntryId(e) == <<e.document_id, e.chunk_index>>

EntryIds(entries) == {EntryId(entries[i]) : i \in 1..Len(entries)}

\* a batch that writes only its first entry
PreparedEntries_FirstOnly(call) ==
    [i \in 1..Min(1, Len(call.chunks)) |->
        [document_id |-> call.chunks[i].document_id,
         chunk_index |-> call.chunks[i].chunk_index,
         text |-> call.chunks[i].text,
         embedding |-> call.embeddings[i]]]

\* texts, embeddings, metadatas and ids of the one collection.add call
PreparedEntries(call) ==
    [i \in 1..Len(call.chunks) |->
        [document_id |-> call.chunks[i].document_id,
         chunk_index |-> call.chunks[i].chunk_index,
         text |-> call.chunks[i].text,
         embedding |-> call.embeddings[i]]]

\* entries of the index not yet written by the calls in flight
PendingEntries ==
    SumSeq([w \in Writers |->
              IF add_calls[w].status = "preparing"
              THEN Len(add_calls[w].chunks) ELSE 0])

\* add_document_chunks is called: an empty list returns True at once
add_document_chunks(w, d, file) ==
    /\ add_calls[w].status = "idle"
    /\ Len(collection) + PendingEntries + Len(file) <= MaxEntries
    /\ add_calls' = [add_calls EXCEPT ![w] =
          IF file = <<>>
          THEN [status |-> "done", ok |-> TRUE]
          ELSE [status |-> "preparing", chunks |-> StoreChunks(d, file),
                embeddings |-> <<>>, raised |-> {}]]
    /\ UNCHANGED <<collection, delete_call, processor>>
    /\ UNCHANGED db_vars

\* one iteration of the loop of add_document_chunks: the embedding of the
\* next chunk is awaited; an exception leaves through the except clause
\* and the call returns False
add_embed(w, encode_raises) ==
    /\ add_calls[w].status = "preparing"
    /\ Len(add_calls[w].embeddings) < Len(add_calls[w].chunks)
    /\ LET call == add_calls[w]
           k == Len(call.embeddings) + 1
           embedding == generate_embedding_caught(call.chunks[k].text, encode_raises)
       IN  add_calls' = [add_calls EXCEPT ![w] =
             IF embedding = EmbeddingRaised
             THEN [status |-> "done", ok |-> FALSE]
             ELSE [call EXCEPT
                     !.embeddings = Append(call.embeddings, embedding),
                     !.raised = IF encode_raises THEN call.raised \cup {k}
                                ELSE call.raised]]
    /\ UNCHANGED <<collection, delete_call, processor>>
    /\ UNCHANGED db_vars

\* what the index does with a batch holding an id it already stores: it
\* rejects the batch, or stores a second entry under the id
DuplicateOutcomes == {"raise", "append"}

\* self.collection.add(...): one call for the whole batch; when it raises
\* the call returns False
add_commit(w, on_duplicate) ==
    /\ add_calls[w].status = "preparing"
    /\ Len(add_calls[w].embeddings) = Len(add_calls[w].chunks)
    /\ LET entries == PreparedEntries(add_calls[w])
           rejected == /\ EntryIds(entries) \cap EntryIds(collection) # {}
                       /\ on_duplicate = "raise"
       IN  /\ collection' = IF rejected THEN collection ELSE collection \o entries
           /\ add_calls' = [add_calls EXCEPT ![w] =
                               [status |-> "done", ok |-> ~rejected]]
    /\ UNCHANGED <<delete_call, processor>>
    /\ UNCHANGED db_vars

\* add_document_chunks returns
add_return(w) ==
    /\ add_calls[w].status = "done"
    /\ add_calls' = [add_calls EXCEPT ![w] = NoAddCall]
    /\ UNCHANGED <<collection, delete_call, processor>>
    /\ UNCHANGED db_vars

\* delete_document_chunks: self.collection.get(where={"document_id": d})
\* and the chunk ids built of its metadatas
delete_get(d) ==
    /\ delete_call.status = "idle"
    /\ delete_call' =
          [status |-> "found", document_id |-> d,
           chunk_ids |-> {EntryId(collection[i]) :
                            i \in {j \in 1..Len(collection) :
                                      collection[j].document_id = d}}]
    /\ UNCHANGED <<collection, add_calls, processor>>
    /\ UNCHANGED db_vars

\* delete_document_chunks: self.collection.delete(ids=chunk_ids) when
\* there are any, and return True
delete_ids(d) ==
    /\ delete_call.status = "found"
    /\ delete_call.document_id = d
    /\ collection' =
          SelectSeq(collection, LAMBDA e : EntryId(e) \notin delete_call.chunk_ids)
    /\ delete_call' = [status |-> "done", document_id |-> d, ok |-> TRUE]
    /\ UNCHANGED <<add_calls, processor>>
    /\ UNCHANGED db_vars

\* delete_document_chunks returns
delete_return ==
    /\ delete_call.status = "done"
    /\ delete_call' = NoDeleteCall
    /\ UNCHANGED <<collection, add_calls, processor>>
    /\ UNCHANGED db_vars

\* the files whose chunks the writers add
StoreFiles == ChunkFiles \cup { <<>> }

NextStore ==
    \/ \E w \in Writers, d \in StoreDocs, file \in StoreFiles :
          add_document_chunks(w, d, file)
    \/ \E w \in Writers, encode_raises \in BOOLEAN : add_embed(w, encode_raises)
    \/ \E w \in Writers, on_duplicate \in DuplicateOutcomes : add_commit(w, on_duplicate)
    \/ \E w \in Writers : add_return(w)
    \/ \E d \in StoreDocs : delete_get(d)
    \/ \E d \in StoreDocs : delete_ids(d)
    \/ delete_return

SpecStore == Init /\ [][NextStore]_vars

\* ------------------------------------------------- update of an embedding
\* the entries the index holds under the id of the chunk, in index order
EntriesOf(chunk) ==
    SelectSeq(collection, LAMBDA e : EntryId(e) = EntryId(chunk))

\* update_chunk_embedding is called for a chunk of the index whose text
\* changed; before: the entries of the chunk at the time of the call
update_chunk_embedding(d, chunk_index, text) ==
    /\ in_flight = NoOperation
    /\ response = NoResponse
    /\ LET chunk == [document_id |-> d, chunk_index |-> chunk_index, text |-> text]
       IN  /\ EntriesOf(chunk) # <<>>
           /\ \A i \in 1..Len(EntriesOf(chunk)) : EntriesOf(chunk)[i].text # text
           /\ in_flight' = [op |-> "update_chunk_embedding", chunk |-> chunk,
                            status |-> "embedding", embedding |-> ZeroVector,
                            before |-> EntriesOf(chunk), ok |-> FALSE]
    /\ UNCHANGED <<documents, document_chunks, collection, next_document_id,
                   next_chunk_id, response, add_calls, delete_call, processor>>

\* the awaited generate_embedding returns and the metadata is built; an
\* exception there leaves through the except clause before the index is
\* touched
update_embed(encode_raises, metadata_raises) ==
    /\ in_flight.op = "update_chunk_embedding"
    /\ in_flight.status = "embedding"
    /\ in_flight' =
          IF metadata_raises
          THEN [in_flight EXCEPT !.status = "done", !.ok = FALSE]
          ELSE [in_flight EXCEPT
                   !.status = "embedded",
                   !.embedding = generate_embedding_caught(in_flight.chunk.text,
                                                           encode_raises)]
    /\ UNCHANGED <<documents, document_chunks, collection, next_document_id,
                   next_chunk_id, response, add_calls, delete_call, processor>>

\* self.collection.delete(ids=[chunk_id]): the entries of the id leave the
\* index; what the call raises for an id the index does not hold is
\* swallowed
update_delete ==
    /\ in_flight.op = "update_chunk_embedding"
    /\ in_flight.status = "embedded"
    /\ collection' =
          SelectSeq(collection, LAMBDA e : EntryId(e) # EntryId(in_flight.chunk))
    /\ in_flight' = [in_flight EXCEPT !.status = "deleted"]
    /\ UNCHANGED <<documents, document_chunks, next_document_id, next_chunk_id,
                   response, add_calls, delete_call, processor>>

\* self.collection.add(...) of the one new entry, then return True; when
\* the add raises the except clause returns False
update_add(add_raises) ==
    /\ in_flight.op = "update_chunk_embedding"
    /\ in_flight.status = "deleted"
    /\ collection' =
          IF add_raises THEN collection
          ELSE Append(collection,
                      [document_id |-> in_flight.chunk.document_id,
                       chunk_index |-> in_flight.chunk.chunk_index,
                       text |-> in_flight.chunk.text,
                       embedding |-> in_flight.embedding])
    /\ in_flight' = [in_flight EXCEPT !.status = "done", !.ok = ~add_raises]
    /\ UNCHANGED <<documents, document_chunks, next_document_id, next_chunk_id,
                   response, add_calls, delete_call, processor>>

\* update_chunk_embedding returns
update_return ==
    /\ in_flight.op = "update_chunk_embedding"
    /\ in_flight.status = "done"
    /\ in_flight' = NoOperation
    /\ UNCHANGED <<documents, document_chunks, collection, next_document_id,
                   next_chunk_id, response, add_calls, delete_call, processor>>

\* the documents whose chunks are updated are statutes; the new text of a
\* chunk
UpdateKinds == {kind \in DocKinds : kind.document_type = "statute"}
UpdateTexts == { <<"b">> }

NextUpdate ==
    \/ \E kind \in UpdateKinds, file \in ChunkFiles : ingest_document(kind, file)
    \/ \E d \in 1..MaxDocs, chunk_index \in {0, 1}, text \in UpdateTexts :
          update_chunk_embedding(d, chunk_index, text)
    \/ \E encode_raises \in BOOLEAN, metadata_raises \in BOOLEAN :
          update_embed(encode_raises, metadata_raises)
    \/ update_delete
    \/ \E add_raises \in BOOLEAN : update_add(add_raises)
    \/ update_return

SpecUpdate == Init /\ [][NextUpdate]_vars

\* ------------------------------------------------ batch ingestion script
\* names of the PDF files of the worklist
Filenames == {"x.pdf", "y.pdf"}

\* the rows is_already_processed finds by original_filename
RowsByName(name) == {doc \in documents : doc.original_filename = name}

\* PDFProcessorStandalone.is_already_processed: TRUE when it returns a
\* Document, FALSE when it returns None
is_already_processed(name, file, force) ==
    IF RowsByName(name) # {} /\ ~force THEN TRUE
    ELSE IF {doc \in documents : doc.file_hash = file} # {} /\ ~force THEN TRUE
    ELSE FALSE

\* the outcome of process_pdf_file as a response; rerun: a row of the file
\* name was there when the run began
ScriptResponse(name, file, force, status, ok) ==
    [api |-> "process_pdf_file", name |-> name, file |-> file, force |-> force,
     rerun |-> RowsByName(name) # {}, status |-> status, ok |-> ok]

\* PDFProcessorStandalone.process_pdf_file: dry run, duplicate check, text
\* check, Document row saved, then the call of the vector store, which has
\* no method add_document: with a vector store the run ends in the except
\* clause after the row was committed
process_pdf_file(name, file, force, dry_run, has_vector_store) ==
    /\ response = NoResponse
    /\ next_document_id <= MaxDocs
    /\ IF dry_run
       THEN /\ response' = ScriptResponse(name, file, force, "dry_run", TRUE)
            /\ UNCHANGED <<documents, next_document_id>>
       ELSE IF is_already_processed(name, file, force)
       THEN /\ response' = ScriptResponse(name, file, force, "already_processed", TRUE)
            /\ UNCHANGED <<documents, next_document_id>>
       ELSE IF file = <<>>
       THEN /\ response' = ScriptResponse(name, file, force, "skipped", FALSE)
            /\ UNCHANGED <<documents, next_document_id>>
       ELSE /\ documents' = documents \cup
                  { [id |-> next_document_id, original_filename |-> name,
                     file_hash |-> file, processing_status |-> "pending"] }
            /\ next_document_id' = next_document_id + 1
            /\ response' =
                  IF has_vector_store
                  THEN ScriptResponse(name, file, force, "failed", FALSE)
                  ELSE ScriptResponse(name, file, force, "processed", TRUE)
    /\ UNCHANGED <<document_chunks, collection, next_chunk_id>>
    /\ UNCHANGED call_vars

\* the answer of POST /documents/{document_id}/process; status_before is the
\* processing_status the row had when the request came, None without a row
ProcessResponse(d, status_code) ==
    [api |-> "process_document", document_id |-> d,
     status_before |-> IF DocumentExists(d)
                       THEN DocumentById(d).processing_status ELSE NoneStr,
     status_code |-> status_code]

\* api/documents.py process_document: 404 without a row, 400 for a completed
\* document, otherwise the status is set to "processing" and the answer is
\* "Document processing started"; a commit that raises gives 500
process_document(d, commit_raises) ==
    /\ response = NoResponse
    /\ IF ~DocumentExists(d)
       THEN /\ response' = ProcessResponse(d, 404)
            /\ UNCHANGED documents
       ELSE IF DocumentById(d).processing_status = "completed"
       THEN /\ response' = ProcessResponse(d, 400)
            /\ UNCHANGED documents
       ELSE IF commit_raises
       THEN /\ response' = ProcessResponse(d, 500)
            /\ UNCHANGED documents
       ELSE /\ response' = ProcessResponse(d, 200)
            /\ documents' = (documents \ {DocumentById(d)}) \cup
                  {[DocumentById(d) EXCEPT !.processing_status = "processing"]}
    /\ UNCHANGED <<document_chunks, collection, next_document_id, next_chunk_id>>
    /\ UNCHANGED call_vars

NextIngest ==
    \/ \E name \in Filenames, file \in StoreFiles, force \in BOOLEAN,
          dry_run \in BOOLEAN, has_vector_store \in BOOLEAN :
          process_pdf_file(name, file, force, dry_run, has_vector_store)
    \/ \E d \in 1..MaxDocs, commit_raises \in BOOLEAN :
          process_document(d, commit_raises)
    \/ return_response

SpecIngest == Init /\ [][NextIngest]_vars

\* ---------------------------------------------------------------- batch run
\* the worklists find_pdf_files returns: the matches of *.pdf and of *.PDF,
\* where a file system that ignores case gives a path twice
Worklists ==
    { <<n>> : n \in Filenames } \cup { <<p[1], p[2]>> : p \in Filenames \X Filenames }

\* --batch-size and --concurrent of the command line
BatchSizes == {1, 2}
Concurrents == {1, 2}

\* PDFProcessorStandalone.__init__: self.stats, total_found apart
NoStats ==
    [already_processed |-> 0, successfully_processed |-> 0, failed |-> 0,
     skipped |-> 0]

\* a variant whose except clause does not count the failure
Counted_FailureUncounted(stats, counter) ==
    IF counter = "failed" THEN stats ELSE [stats EXCEPT ![counter] = @ + 1]

\* self.stats[counter] += 1
Counted(stats, counter) == [stats EXCEPT ![counter] = @ + 1]

\* process_batch: one asyncio task per file of pdf_files[i:i + batch_size],
\* whatever self.concurrent is; the executor of max_workers = concurrent is
\* given no work
CreatedTasks(worklist, i, batch_size) ==
    [k \in 1..Min(batch_size, Len(worklist) - i + 1) |->
        [state |-> "created", success |-> FALSE, message |-> "none"]]

\* process_all_pdfs up to the first await: find_pdf_files sets total_found,
\* the tasks of the first batch are created
process_all_pdfs(worklist, batch_size, concurrent, force, dry_run) ==
    /\ in_flight = NoOperation
    /\ response = NoResponse
    /\ in_flight' =
          [op |-> "process_all_pdfs", worklist |-> worklist,
           batch_size |-> batch_size, concurrent |-> concurrent,
           force |-> force, dry_run |-> dry_run, i |-> 1,
           tasks |-> CreatedTasks(worklist, 1, batch_size),
           results |-> <<>>, total_found |-> Len(worklist),
           stats |-> NoStats, reported |-> FALSE]
    /\ UNCHANGED <<documents, document_chunks, collection, next_document_id,
                   next_chunk_id, response, add_calls, delete_call, processor>>

\* what process_pdf_file does apart from the checks of the model: it raises
\* before the row is saved, it gets to an await, or it returns without one
TaskOutcomes == {"raises", "suspends", "returns"}

\* a task after a step: its state, and its return value once it is done
TaskStep(state, success, message) ==
    [state |-> state, success |-> success, message |-> message]

\* the task of file k of the batch runs process_pdf_file up to its first
\* await or to its return; tasks start in the order of their creation.
\* outcome: "raises" for an exception before the row is saved, "returns"
\* for a run that gets to the await of the vector store or of the analyzer
\* ("suspends") or past them without either
task_run(k, file, outcome) ==
    /\ in_flight.op = "process_all_pdfs"
    /\ k \in 1..Len(in_flight.tasks)
    /\ in_flight.tasks[k].state = "created"
    /\ \A j \in 1..(k - 1) : in_flight.tasks[j].state # "created"
    /\ LET name == in_flight.worklist[in_flight.i + k - 1]
           saves == /\ ~in_flight.dry_run
                    /\ outcome # "raises"
                    /\ ~is_already_processed(name, file, in_flight.force)
                    /\ file # <<>>
       IN  /\ saves => next_document_id <= MaxDocs
           /\ documents' =
                 IF saves
                 THEN documents \cup
                      { [id |-> next_document_id, original_filename |-> name,
                         file_hash |-> file, processing_status |-> "pending"] }
                 ELSE documents
           /\ next_document_id' =
                 IF saves THEN next_document_id + 1 ELSE next_document_id
           /\ in_flight' =
                 IF in_flight.dry_run
                 THEN [in_flight EXCEPT
                          !.tasks[k] = TaskStep("done", TRUE, "dry_run")]
                 ELSE IF outcome = "raises"
                 THEN [in_flight EXCEPT
                          !.tasks[k] = TaskStep("done", FALSE, "failed"),
                          !.stats = Counted(@, "failed")]
                 ELSE IF is_already_processed(name, file, in_flight.force)
                 THEN [in_flight EXCEPT
                          !.tasks[k] = TaskStep("done", TRUE, "already_processed"),
                          !.stats = Counted(@, "already_processed")]
                 ELSE IF file = <<>>
                 THEN [in_flight EXCEPT
                          !.tasks[k] = TaskStep("done", FALSE, "skipped"),
                          !.stats = Counted(@, "skipped")]
                 ELSE IF outcome = "suspends"
                 THEN [in_flight EXCEPT
                          !.tasks[k] = TaskStep("awaiting", FALSE, "none")]
                 ELSE [in_flight EXCEPT
                          !.tasks[k] = TaskStep("done", TRUE, "processed"),
                          !.stats = Counted(@, "successfully_processed")]
    /\ UNCHANGED <<document_chunks, collection, next_chunk_id, response,
                   add_calls, delete_call, processor>>

\* the awaited call of a suspended task completes: the task runs to its
\* return, or the call raises and the except clause counts a failure
task_resume(k, raises) ==
    /\ in_flight.op = "process_all_pdfs"
    /\ k \in 1..Len(in_flight.tasks)
    /\ in_flight.tasks[k].state = "awaiting"
    /\ in_flight' =
          IF raises
          THEN [in_flight EXCEPT
                   !.tasks[k] = TaskStep("done", FALSE, "failed"),
                   !.stats = Counted(@, "failed")]
          ELSE [in_flight EXCEPT
                   !.tasks[k] = TaskStep("done", TRUE, "processed"),
                   !.stats = Counted(@, "successfully_processed")]
    /\ UNCHANGED <<documents, document_chunks, collection, next_document_id,
                   next_chunk_id, response, add_calls, delete_call, processor>>

\* a variant whose loop over the tasks ends at the first task that failed
CollectedResults_StopAtFailure(b) ==
    LET failures == {j \in 1..Len(b.tasks) : ~b.tasks[j].success}
        last == IF failures = {} THEN Len(b.tasks)
                ELSE CHOOSE j \in failures : \A h \in failures : j <= h
    IN  [k \in 1..last |->
            [file |-> b.worklist[b.i + k - 1],
             success |-> b.tasks[k].success,
             message |-> b.tasks[k].message]]

\* results.append((pdf_path, success, message)) for each task of the batch,
\* in the order of the batch; an exception of a task gives (pdf_path, False,
\* str(e)) and the loop goes on
CollectedResults(b) ==
    [k \in 1..Len(b.tasks) |->
        [file |-> b.worklist[b.i + k - 1],
         success |-> b.tasks[k].success,
         message |-> b.tasks[k].message]]

\* process_batch from its awaits on: once every task of the batch is done
\* their results are appended; process_all_pdfs then creates the tasks of the
\* next batch, or writes the report after the last one
process_batch ==
    /\ in_flight.op = "process_all_pdfs"
    /\ ~in_flight.reported
    /\ \A k \in 1..Len(in_flight.tasks) : in_flight.tasks[k].state = "done"
    /\ LET results == in_flight.results \o CollectedResults(in_flight)
           i == in_flight.i + in_flight.batch_size
       IN  in_flight' =
              IF i <= Len(in_flight.worklist)
              THEN [in_flight EXCEPT
                       !.results = results, !.i = i,
                       !.tasks = CreatedTasks(in_flight.worklist, i,
                                              in_flight.batch_size)]
              ELSE [in_flight EXCEPT
                       !.results = results, !.i = i, !.tasks = <<>>,
                       !.reported = TRUE]
    /\ UNCHANGED <<documents, document_chunks, collection, next_document_id,
                   next_chunk_id, response, add_calls, delete_call, processor>>

\* the script ends after its report
script_exit ==
    /\ in_flight.op = "process_all_pdfs"
    /\ in_flight.reported
    /\ in_flight' = NoOperation
    /\ UNCHANGED <<documents, document_chunks, collection, next_document_id,
                   next_chunk_id, response, add_calls, delete_call, processor>>

NextBatch ==
    \/ \E worklist \in Worklists, batch_size \in BatchSizes,
          concurrent \in Concurrents, force \in BOOLEAN, dry_run \in BOOLEAN :
          process_all_pdfs(worklist, batch_size, concurrent, force, dry_run)
    \/ \E k \in BatchSizes, file \in StoreFiles, outcome \in TaskOutcomes :
          task_run(k, file, outcome)
    \/ \E k \in BatchSizes, raises \in BOOLEAN : task_resume(k, raises)
    \/ process_batch
    \/ script_exit

SpecBatch == Init /\ [][NextBatch]_vars

\* ------------------------------------------------------- text extraction
\* the floor under which _extract_pdf_text does not accept a method's text
MinTextLength == 100
\* the number of pages _ocr_pdf reads at most
OcrPageLimit == 10

\* an extracted text, as far as extraction looks at it: its length and the
\* length of text.strip(); pad is the leading and trailing whitespace
Text(pad, body) == [len |-> pad + body, stripped |-> body]
EmptyText == Text(0, 0)

\* what one extraction library does on a file: it raises or it yields a text
Raises == [raises |-> TRUE]
ExtractorOutcomes ==
    {Raises} \cup {[raises |-> FALSE, text |-> Text(pad, body)] : pad \in {0, 60},
                                              body \in {0, 40, 100, 101}}

\* what the OCR does: fitz or tesseract raises, or every page yields a text
\* of page_body characters
OcrOutcomes == {Raises} \cup {[raises |-> FALSE, page_body |-> b] : b \in {0, 20}}

Pdfs == [pages : {0, 1, OcrPageLimit, OcrPageLimit + 1}, fast : ExtractorOutcomes,
         layout : ExtractorOutcomes, ocr : OcrOutcomes]
FileTypes == {".pdf", ".PDF", ".docx", ".txt", ".rtf"}
\* file_type.lower()
FileTypeLower(file_type) == IF file_type = ".PDF" THEN ".pdf" ELSE file_type

\* DocumentProcessor._ocr_pdf: ocr_text + "\n" of the first pages; an
\* exception is caught and gives ""
ocr_pdf(pdf) ==
    IF pdf.ocr.raises
    THEN [pages_read |-> 0, text |-> EmptyText]
    ELSE [pages_read |-> Min(OcrPageLimit, pdf.pages),
          text |-> [len |-> Min(OcrPageLimit, pdf.pages) * (pdf.ocr.page_body + 1),
                    stripped |->
                        IF pdf.ocr.page_body = 0 \/ pdf.pages = 0 THEN 0
                        ELSE Min(OcrPageLimit, pdf.pages) * (pdf.ocr.page_body + 1) - 1]]

\* DocumentProcessor._extract_pdf_text: PyMuPDF, then pdfplumber, then OCR
extract_pdf_text(pdf) ==
    IF ~pdf.fast.raises /\ pdf.fast.text.stripped > MinTextLength
    THEN [attempted |-> <<"fast">>, ocr_pages |-> 0, text |-> pdf.fast.text]
    ELSE IF ~pdf.layout.raises /\ pdf.layout.text.stripped > MinTextLength
    THEN [attempted |-> <<"fast", "layout">>, ocr_pages |-> 0,
          text |-> pdf.layout.text]
    ELSE [attempted |-> <<"fast", "layout", "ocr">>,
          ocr_pages |-> ocr_pdf(pdf).pages_read, text |-> ocr_pdf(pdf).text]

\* _extract_docx_text and _extract_txt_text: the text read, "" on an exception
extract_other_text(reader) ==
    [attempted |-> <<"reader">>, ocr_pages |-> 0,
     text |-> IF reader.raises THEN EmptyText ELSE reader.text]

ExtractCall(file_type, pdf, reader, out) ==
    [op |-> "extract_text", file_type |-> file_type, pdf |-> pdf,
     reader |-> reader, attempted |-> out.attempted,
     ocr_pages |-> out.ocr_pages, text |-> out.text, raised |-> FALSE]

\* DocumentProcessor.extract_text: dispatch on file_type.lower()
extract_text(file_type, pdf, reader) ==
    /\ processor = NoCall
    /\ processor' =
          IF FileTypeLower(file_type) = ".pdf"
          THEN ExtractCall(file_type, pdf, reader, extract_pdf_text(pdf))
          ELSE IF FileTypeLower(file_type) \in {".docx", ".txt"}
          THEN ExtractCall(file_type, pdf, reader, extract_other_text(reader))
          ELSE ExtractCall(file_type, pdf, reader,
                           [attempted |-> <<>>, ocr_pages |-> 0, text |-> EmptyText])
    /\ UNCHANGED db_vars
    /\ UNCHANGED <<collection, add_calls, delete_call>>

\* the caller takes the result
processor_return ==
    /\ processor # NoCall
    /\ processor' = NoCall
    /\ UNCHANGED db_vars
    /\ UNCHANGED <<collection, add_calls, delete_call>>

\* ---------------------------------------------------------- text cleaning
\* the character classes of the patterns of clean_text, on the alphabet of
\* the texts cleaned here; "EM" and "EN" stand for the em and the en dash
Whitespace == {" ", "\n", "\t"}
Digits == {"0", "1", "2"}
LowerLetters == {"a", "b", "e", "f", "g", "o", "p"}
UpperLetters == {"A", "B", "E", "F", "G", "O", "P"}
WordChars == LowerLetters \cup UpperLetters \cup Digits \cup {"_"}

\* case folding of re.IGNORECASE
FoldChar(c) ==
    CASE c = "A" -> "a" [] c = "B" -> "b" [] c = "E" -> "e" [] c = "F" -> "f"
      [] c = "G" -> "g" [] c = "O" -> "o" [] c = "P" -> "p" [] OTHER -> c

\* re.sub(r'\s+', ' ', text)
RECURSIVE CollapseWhitespace(_, _)
CollapseWhitespace(t, i) ==
    IF i > Len(t) THEN <<>>
    ELSE IF t[i] \in Whitespace
    THEN IF i > 1 /\ t[i-1] \in Whitespace
         THEN CollapseWhitespace(t, i + 1)
         ELSE <<" ">> \o CollapseWhitespace(t, i + 1)
    ELSE <<t[i]>> \o CollapseWhitespace(t, i + 1)

\* the index after the longest run of digits that starts at i (\d+, greedy);
\* i when no digit is there
RECURSIVE DigitsEnd(_, _)
DigitsEnd(t, i) ==
    IF i <= Len(t) /\ t[i] \in Digits THEN DigitsEnd(t, i + 1) ELSE i

\* re.sub(r'\n\d+\n', '\n', text)
RECURSIVE RemovePageNumberLines(_, _)
RemovePageNumberLines(t, i) ==
    IF i > Len(t) THEN <<>>
    ELSE IF /\ t[i] = "\n"
            /\ DigitsEnd(t, i + 1) > i + 1
            /\ DigitsEnd(t, i + 1) <= Len(t)
            /\ t[DigitsEnd(t, i + 1)] = "\n"
    THEN <<"\n">> \o RemovePageNumberLines(t, DigitsEnd(t, i + 1) + 1)
    ELSE <<t[i]>> \o RemovePageNumberLines(t, i + 1)

\* whether the literal lit stands at i, case folded
FoldedAt(t, i, lit) ==
    /\ i + Len(lit) - 1 <= Len(t)
    /\ \A k \in 1..Len(lit) : FoldChar(t[i + k - 1]) = lit[k]

\* the index after a match of r'Page \d+ of \d+' (IGNORECASE) at i, 0 when
\* the pattern does not match at i
FooterEnd(t, i) ==
    IF /\ FoldedAt(t, i, <<"p", "a", "g", "e", " ">>)
       /\ DigitsEnd(t, i + 5) > i + 5
       /\ FoldedAt(t, DigitsEnd(t, i + 5), <<" ", "o", "f", " ">>)
       /\ DigitsEnd(t, DigitsEnd(t, i + 5) + 4) > DigitsEnd(t, i + 5) + 4
    THEN DigitsEnd(t, DigitsEnd(t, i + 5) + 4)
    ELSE 0

\* re.sub(r'Page \d+ of \d+', '', text, flags=re.IGNORECASE)
RECURSIVE RemoveFooters(_, _)
RemoveFooters(t, i) ==
    IF i > Len(t) THEN <<>>
    ELSE IF FooterEnd(t, i) # 0
    THEN RemoveFooters(t, FooterEnd(t, i))
    ELSE <<t[i]>> \o RemoveFooters(t, i + 1)

\* the index after the longest run of line breaks that starts at i
RECURSIVE LineBreaksEnd(_, _)
LineBreaksEnd(t, i) ==
    IF i <= Len(t) /\ t[i] = "\n" THEN LineBreaksEnd(t, i + 1) ELSE i

\* re.sub(r'\n{3,}', '\n\n', text)
RECURSIVE SqueezeLineBreaks(_, _)
SqueezeLineBreaks(t, i) ==
    IF i > Len(t) THEN <<>>
    ELSE IF LineBreaksEnd(t, i) >= i + 3
    THEN <<"\n", "\n">> \o SqueezeLineBreaks(t, LineBreaksEnd(t, i))
    ELSE <<t[i]>> \o SqueezeLineBreaks(t, i + 1)

\* the two-character patterns of the three passes that insert a space
PairMatches(kind, c, d) ==
    CASE kind = "lower_upper" -> c \in LowerLetters /\ d \in UpperLetters
      [] kind = "word_digit" -> c \in WordChars /\ d \in Digits
      [] kind = "digit_word" -> c \in Digits /\ d \in WordChars

\* re.sub(pattern, r'\1 \2', text): leftmost matches that do not overlap
RECURSIVE InsertSpaces(_, _, _)
InsertSpaces(t, i, kind) ==
    IF i > Len(t) THEN <<>>
    ELSE IF i < Len(t) /\ PairMatches(kind, t[i], t[i+1])
    THEN <<t[i], " ", t[i+1]>> \o InsertSpaces(t, i + 2, kind)
    ELSE <<t[i]>> \o InsertSpaces(t, i + 1, kind)

\* the passes that normalize quotes and dashes, character by character: the
\* straight double quote stays, the dashes become "-"
NormalizeQuotes(t) ==
    [i \in 1..Len(t) |-> IF t[i] \in {"EM", "EN"} THEN "-" ELSE t[i]]

\* str.strip()
RECURSIVE Strip(_)
Strip(t) ==
    IF t # <<>> /\ Head(t) \in Whitespace THEN Strip(Tail(t))
    ELSE IF t # <<>> /\ t[Len(t)] \in Whitespace
    THEN Strip(SubSeq(t, 1, Len(t) - 1))
    ELSE t

\* DocumentProcessor.clean_text, pass by pass
clean_text_of(t) ==
    Strip(NormalizeQuotes(
        InsertSpaces(InsertSpaces(InsertSpaces(
            SqueezeLineBreaks(RemoveFooters(RemovePageNumberLines(
                CollapseWhitespace(t, 1), 1), 1), 1),
            1, "lower_upper"), 1, "word_digit"), 1, "digit_word")))

\* the texts cleaned: every text of up to three characters of a small
\* alphabet, and texts with footers, glued runs and line breaks
CleanInputs ==
    UNION {[1..n -> {"a", "A", "1", " "}] : n \in 0..3} \cup
    { <<"P", "a", "g", "e", " ", "1", " ", "o", "f", " ", "2">>,
      <<"a", " ", "P", "a", "g", "e", " ", "1", " ", "o", "f", " ", "2", " ", "b">>,
      <<"P", "a", "g", "e", "1", "o", "f", "2">>,
      <<"p", "a", "g", "e", " ", "1", "2", " ", "O", "F", " ", "2">>,
      <<"a", "\n", "1", "\n", "b">>,
      <<"a", "\n", "\n", "\n", "\n", "b">>,
      <<"a", "B", "1", "2", "b", "EN", "a">>,
      <<"\t", "a", "_", "1", " ", " ", "b", "\n">> }

\* one call of clean_text
clean_text(text) ==
    /\ processor = NoCall
    /\ processor' = [op |-> "clean_text", text |-> text,
                     cleaned |-> clean_text_of(text)]
    /\ UNCHANGED db_vars
    /\ UNCHANGED <<collection, add_calls, delete_call>>

\* ---------------------------------------------------------- legal entities
\* texts with statute references; "SEC" stands for the section sign
StatutePieces ==
    { <<"SEC", "1", "a">>, <<"SEC", "1", "A">>, <<"SEC", " ", "1">>, <<"a">> }
EntityInputs ==
    StatutePieces \cup {p \o <<" ">> \o q : p \in StatutePieces, q \in StatutePieces}

\* the first position from i on whose character is not of the class
RECURSIVE ClassEnd(_, _, _)
ClassEnd(text, i, class) ==
    IF i > Len(text) \/ text[i] \notin class THEN i
    ELSE ClassEnd(text, i + 1, class)

\* the end of the match of the pattern "section sign, \s*, \d+, [a-z]?"
\* with re.IGNORECASE at position i, 0 without a match
StatuteEnd(text, i) ==
    LET digits == ClassEnd(text, i + 1, Whitespace)
        letter == ClassEnd(text, digits, Digits)
    IN  IF i > Len(text) \/ text[i] # "SEC" \/ letter = digits THEN 0
        ELSE IF letter <= Len(text)
                /\ text[letter] \in LowerLetters \cup UpperLetters
        THEN letter + 1
        ELSE letter

\* re.findall(pattern, text, re.IGNORECASE) from position i on: the matched
\* strings as the text spells them
RECURSIVE FindStatutes(_, _)
FindStatutes(text, i) ==
    IF i > Len(text) THEN <<>>
    ELSE IF StatuteEnd(text, i) = 0 THEN FindStatutes(text, i + 1)
    ELSE <<SubSeq(text, i, StatuteEnd(text, i) - 1)>>
         \o FindStatutes(text, StatuteEnd(text, i))

\* DocumentProcessor._extract_statutes: list(set(statutes)), a list of the
\* distinct strings in no order that is specified; the patterns with
\* "U.S.C." and "Section" find nothing in these texts
extract_statutes(text) == Range(FindStatutes(text, 1))

\* one call of extract_metadata; the texts hold no citation, case name or
\* date
extract_metadata(text) ==
    /\ processor = NoCall
    /\ processor' = [op |-> "extract_metadata", text |-> text,
                     statutes |-> extract_statutes(text)]
    /\ UNCHANGED db_vars
    /\ UNCHANGED <<collection, add_calls, delete_call>>

\* --------------------------------------------------------------- chunking
\* settings.CHUNK_SIZE, in words
CHUNK_SIZE == 1000
\* the length a paragraph must exceed to become a chunk of the last resort
MinParagraphLength == 50

\* a text is a sequence of paragraphs (separated by "\n\n"), a paragraph a
\* sequence of sentences (separated by " "), a sentence one of three
\* kinds, the third longer than CHUNK_SIZE words
SentenceWords(kind) ==
    IF kind = "short" THEN 2 ELSE IF kind = "long" THEN 600 ELSE 1200
SentenceChars(kind) ==
    IF kind = "short" THEN 10 ELSE IF kind = "long" THEN 3000 ELSE 6000
ChunkInputs ==
    UNION {[1..n -> UNION {[1..m -> {"short", "long", "huge"}] : m \in 1..3}] :
              n \in 1..2}

\* the sentences of paragraph p, each with its place in the text
ParagraphSentences(text, p) ==
    [s \in 1..Len(text[p]) |-> [id |-> <<p, s>>, kind |-> text[p][s]]]

\* sent_tokenize(text): the sentences of the text from paragraph p on
RECURSIVE sent_tokenize(_, _)
sent_tokenize(text, p) ==
    IF p > Len(text) THEN <<>>
    ELSE ParagraphSentences(text, p) \o sent_tokenize(text, p + 1)

\* len(sentence.split()) and len(word_tokenize(sentence)): the tokenizer
\* counts the full stop as a token of its own
SentenceLength(sentence, counting) ==
    IF counting = "split" THEN SentenceWords(sentence.kind)
    ELSE SentenceWords(sentence.kind) + 1

\* a variant that closes a chunk after every second sentence
PackSentences_InPairs(sentences, i, current_chunk, current_length, counting) ==
    [k \in 1..((Len(sentences) + 1) \div 2) |->
        SubSeq(sentences, 2 * k - 1, Min(2 * k, Len(sentences)))]

\* the packing loop of _create_semantic_chunks and _create_sentence_chunks
RECURSIVE PackSentences(_, _, _, _, _)
PackSentences(sentences, i, current_chunk, current_length, counting) ==
    IF i > Len(sentences)
    THEN IF current_chunk # <<>> THEN <<current_chunk>> ELSE <<>>
    ELSE IF /\ current_length + SentenceLength(sentences[i], counting) > CHUNK_SIZE
            /\ current_chunk # <<>>
    THEN <<current_chunk>> \o
         PackSentences(sentences, i + 1, <<sentences[i]>>,
                       SentenceLength(sentences[i], counting), counting)
    ELSE PackSentences(sentences, i + 1, Append(current_chunk, sentences[i]),
                       current_length + SentenceLength(sentences[i], counting),
                       counting)

\* DocumentProcessor._create_semantic_chunks: the text itself when it has
\* fewer than three sentences
create_semantic_chunks(text) ==
    IF Len(sent_tokenize(text, 1)) < 3
    THEN <<sent_tokenize(text, 1)>>
    ELSE PackSentences(sent_tokenize(text, 1), 1, <<>>, 0, "split")

\* DocumentProcessor._create_sentence_chunks
create_sentence_chunks(text) ==
    PackSentences(sent_tokenize(text, 1), 1, <<>>, 0, "word_tokenize")

\* the loop over enumerate(chunk_texts) that calls _create_chunk_object
ChunkObjects(chunk_texts, method) ==
    [i \in 1..Len(chunk_texts) |->
        [text |-> chunk_texts[i], chunk_index |-> i - 1, method |-> method]]

\* the try block of create_chunks when nothing raises
FirstStrategy(text) ==
    IF create_semantic_chunks(text) # <<>>
    THEN ChunkObjects(create_semantic_chunks(text), "semantic")
    ELSE ChunkObjects(create_sentence_chunks(text), "sentence")

\* len(paragraph.strip())
RECURSIVE ParagraphLength(_, _)
ParagraphLength(paragraph, s) ==
    IF s > Len(paragraph) THEN 0
    ELSE SentenceChars(paragraph[s]) + (IF s < Len(paragraph) THEN 1 ELSE 0)
         + ParagraphLength(paragraph, s + 1)

\* the except clause of create_chunks: text.split('\n\n'), short paragraphs
\* skipped, chunk_index the place of the paragraph among all paragraphs
RECURSIVE ParagraphChunks(_, _)
ParagraphChunks(text, p) ==
    IF p > Len(text) THEN <<>>
    ELSE IF ParagraphLength(text[p], 1) > MinParagraphLength
    THEN <<[text |-> ParagraphSentences(text, p), chunk_index |-> p - 1,
            method |-> "paragraph"]>> \o ParagraphChunks(text, p + 1)
    ELSE ParagraphChunks(text, p + 1)

\* where the try block raises: AtTokenizer (sent_tokenize, before any chunk
\* exists), a number k (_create_chunk_object, at the chunk of index k) or
\* None
AtTokenizer == 0 - 1
RaisePoints == {None, AtTokenizer, 0, 1}

\* DocumentProcessor.create_chunks: the chunks appended before the exception
\* stay in the list the except clause appends to
create_chunks_of(text, raises_at) ==
    IF raises_at = None THEN FirstStrategy(text)
    ELSE IF raises_at = AtTokenizer THEN ParagraphChunks(text, 1)
    ELSE IF raises_at < Len(FirstStrategy(text))
    THEN SubSeq(FirstStrategy(text), 1, raises_at) \o ParagraphChunks(text, 1)
    ELSE FirstStrategy(text)

\* one call of create_chunks
create_chunks(text, raises_at) ==
    /\ processor = NoCall
    /\ processor' = [op |-> "create_chunks", text |-> text,
                     raises_at |-> raises_at,
                     chunks |-> create_chunks_of(text, raises_at)]
    /\ UNCHANGED db_vars
    /\ UNCHANGED <<collection, add_calls, delete_call>>

\* a call on a file that is no PDF does not look at the pdf
NoPdf == [pages |-> 0, fast |-> Raises, layout |-> Raises, ocr |-> Raises]

NextProcessor ==
    \/ \E file_type \in {".pdf", ".PDF"}, pdf \in Pdfs :
          extract_text(file_type, pdf, Raises)
    \/ \E file_type \in FileTypes \ {".pdf", ".PDF"}, reader \in ExtractorOutcomes :
          extract_text(file_type, NoPdf, reader)
    \/ \E text \in CleanInputs : clean_text(text)
    \/ \E text \in EntityInputs : extract_metadata(text)
    \/ \E text \in ChunkInputs, raises_at \in RaisePoints :
          create_chunks(text, raises_at)
    \/ processor_return

SpecProcessor == Init /\ [][NextProcessor]_vars

\* ------------------------------------------------------------ properties
\* the response is the outcome of SearchEngine.hybrid_search
EngineHybridAnswered ==
    /\ response.api \in {"search_documents", "hybrid_search"}
    /\ response.search_type = "hybrid"
    /\ response.status = "ok"

\* the response is the outcome of VectorStore.hybrid_search
StoreHybridAnswered == response.api = "store_hybrid_search"

\* the keys under which the results of one branch enter the fusion
EngineKeys(results) == {ResultKey(results[i]) : i \in 1..Len(results)}
StoreKey(result) == <<result.document_id, result.chunk_index>>
StoreKeys(results) == {StoreKey(results[i]) : i \in 1..Len(results)}

\* C1: in SearchEngine.hybrid_search a chunk returned by the semantic branch
\* and by the keyword branch appears exactly once in the fused sequence,
\* under one key, with both scores and
\* final_score = semantic_score*semantic_weight + keyword_score*keyword_weight
C1_SharedChunkFusedOnce ==
    EngineHybridAnswered =>
        \A i \in 1..Len(response.semantic_results) :
        \A j \in 1..Len(response.keyword_results) :
            LET sr == response.semantic_results[i]
                kr == response.keyword_results[j]
                same_chunk ==
                    \E c \in Range(document_chunks) :
                        /\ c.id = kr.chunk_id
                        /\ c.document_id = sr.document_id
                        /\ c.chunk_index = sr.chunk_id
                fused == {n \in 1..Len(response.sorted_results) :
                            ResultKey(response.sorted_results[n])
                                \in {ResultKey(sr), ResultKey(kr)}}
            IN  same_chunk =>
                    /\ Cardinality(fused) = 1
                    /\ \A n \in fused :
                        LET r == response.sorted_results[n]
                        IN  /\ r.semantic_score = sr.semantic_score
                            /\ r.keyword_score = kr.keyword_score
                            /\ r.final_score =
                                  sr.semantic_score * response.weights[1]
                                  + kr.keyword_score * response.weights[2]

\* C2 for SearchEngine.hybrid_search
C2_EngineSingleBranch ==
    EngineHybridAnswered =>
        LET sem == response.semantic_results
            kw == response.keyword_results
            fusedKeys == EngineKeys(response.sorted_results)
        IN  /\ \A i \in 1..Len(sem) :
                ResultKey(sem[i]) \notin EngineKeys(kw) =>
                    \E r \in Range(response.sorted_results) :
                        /\ ResultKey(r) = ResultKey(sem[i])
                        /\ r.final_score = sem[i].semantic_score * response.weights[1]
            /\ \A j \in 1..Len(kw) :
                ResultKey(kw[j]) \notin EngineKeys(sem) =>
                    \E r \in Range(response.sorted_results) :
                        /\ ResultKey(r) = ResultKey(kw[j])
                        /\ r.final_score = kw[j].keyword_score * response.weights[2]
            /\ fusedKeys = EngineKeys(sem) \cup EngineKeys(kw)
            /\ Len(response.sorted_results) = Cardinality(fusedKeys)

\* C2 for VectorStore.hybrid_search
C2_StoreSingleBranch ==
    StoreHybridAnswered =>
        LET sem == response.semantic_results
            kw == response.keyword_results
            fusedKeys == StoreKeys(response.sorted_results)
        IN  /\ \A i \in 1..Len(sem) :
                StoreKey(sem[i]) \notin StoreKeys(kw) =>
                    \E r \in Range(response.sorted_results) :
                        /\ StoreKey(r) = StoreKey(sem[i])
                        /\ r.keyword_score = 0
                        /\ r.final_score = sem[i].similarity_score * response.weights[1]
            /\ \A j \in 1..Len(kw) :
                StoreKey(kw[j]) \notin StoreKeys(sem) =>
                    \E r \in Range(response.sorted_results) :
                        /\ StoreKey(r) = StoreKey(kw[j])
                        /\ r.semantic_score = 0
                        /\ r.final_score = kw[j].keyword_score * response.weights[2]
            /\ fusedKeys = StoreKeys(sem) \cup StoreKeys(kw)
            /\ Len(response.sorted_results) = Cardinality(fusedKeys)

\* C2: in both hybrid fusions a key present in one branch only is scored
\* with the missing branch's score as 0: a semantic-only result has
\* final = semantic_score*semantic_weight, a keyword-only result has
\* final = keyword_score*keyword_weight
C2_SingleBranchScore == C2_EngineSingleBranch /\ C2_StoreSingleBranch

\* C2 witness: a fusion answered with a semantic-only and a keyword-only
\* key, both with a non-zero weighted score
C2_Witness ==
    /\ response.api # "none"
    /\ EngineHybridAnswered
    /\ \E r \in Range(response.sorted_results) :
          /\ ResultKey(r) \notin EngineKeys(response.keyword_results)
          /\ r.final_score # 0
    /\ \E r \in Range(response.sorted_results) :
          /\ ResultKey(r) \notin EngineKeys(response.semantic_results)
          /\ r.final_score > 0


\* the position at which a key entered combined_results: semantic results
\* in their order, then the keyword results whose key is new
InsertionRank(key, semKeys, kwKeys) ==
    IF \E i \in 1..Len(semKeys) : semKeys[i] = key
    THEN CHOOSE i \in 1..Len(semKeys) :
            semKeys[i] = key /\ \A k \in 1..(i - 1) : semKeys[k] # key
    ELSE Len(semKeys) +
         (CHOOSE j \in 1..Len(kwKeys) :
            kwKeys[j] = key /\ \A k \in 1..(j - 1) : kwKeys[k] # key)

\* non-increasing final_score, equal scores in insertion order
SortedStable(keys, finals, semKeys, kwKeys) ==
    \A i, j \in 1..Len(keys) :
        i < j =>
            /\ finals[i] >= finals[j]
            /\ finals[i] = finals[j] =>
                 InsertionRank(keys[i], semKeys, kwKeys)
                    < InsertionRank(keys[j], semKeys, kwKeys)

EngineKeySeq(results) == [i \in 1..Len(results) |-> ResultKey(results[i])]
StoreKeySeq(results) == [i \in 1..Len(results) |-> StoreKey(results[i])]

\* C3: the fused sequence of a hybrid search is sorted by final score,
\* highest first, and results with equal final score stay in insertion
\* order: semantic-branch results in semantic rank order, then the
\* keyword-only results in keyword order; the page returned is a slice of it
C3_SortedStableTies ==
    /\ EngineHybridAnswered =>
        /\ SortedStable(EngineKeySeq(response.sorted_results),
                        FinalScores(response.sorted_results),
                        EngineKeySeq(response.semantic_results),
                        EngineKeySeq(response.keyword_results))
        /\ response.results = Slice(response.sorted_results, response.offset,
                                    response.offset + response.limit)
    /\ StoreHybridAnswered =>
        /\ SortedStable(StoreKeySeq(response.sorted_results),
                        FinalScores(response.sorted_results),
                        StoreKeySeq(response.semantic_results),
                        StoreKeySeq(response.keyword_results))
        /\ response.results = Slice(response.sorted_results, 0, response.limit)

\* C3 witness: a fused sequence in which a semantic-branch result and a
\* keyword-only result have the same final score
C3_Witness ==
    /\ response.api # "none"
    /\ EngineHybridAnswered
    /\ \E i, j \in 1..Len(response.sorted_results) :
          LET a == response.sorted_results[i]
              b == response.sorted_results[j]
          IN  /\ i < j
              /\ a.final_score = b.final_score
              /\ ResultKey(a) \in EngineKeys(response.semantic_results)
              /\ ResultKey(b) \notin EngineKeys(response.semantic_results)

\* C4: each branch of a hybrid search is asked for at least offset + limit
\* candidates
C4_BranchFetchCoversPage ==
    EngineHybridAnswered => response.fetched >= response.offset + response.limit


\* search(q, limit, offset) of one mode on the present corpus, no filters,
\* no failure, default weights
SearchOf(mode, query, limit, offset) ==
    IF mode = "semantic"
    THEN SearchEngine_semantic_search(query, limit, offset, NoFilters, FALSE)
    ELSE IF mode = "keyword"
    THEN SearchEngine_keyword_search(query, limit, offset, NoFilters, FALSE)
    ELSE SearchEngine_hybrid_search(query, limit, offset, NoFilters,
                                    DefaultSemanticWeight, DefaultKeywordWeight,
                                    FALSE, FALSE).paginated_results

\* the number of results of a search that is not cut by its limit
TotalOf(mode, query) ==
    Len(SearchOf(mode, query, Len(document_chunks) + Len(collection) + 1, 0))

\* the pages at offsets from, from + limit, ... below total, concatenated
RECURSIVE PagesFrom(_, _, _, _, _)
PagesFrom(mode, query, limit, from, total) ==
    IF from >= total THEN <<>>
    ELSE SearchOf(mode, query, limit, from)
            \o PagesFrom(mode, query, limit, from + limit, total)

\* C5: on a static corpus the pages of size L at offsets 0, L, 2L, ...
\* concatenated equal the one search with limit = total, in every mode
C5_PaginationStable ==
    response = NoResponse =>
        \A mode \in SearchTypes, query \in Queries, limit \in Limits :
            LET total == TotalOf(mode, query)
            IN  total > 0 =>
                  PagesFrom(mode, query, limit, 0, total)
                    = SearchOf(mode, query, total, 0)

\* the keyword score of the design: the sum over the query terms of
\* occurrences / words, at most 1; a text without words has no occurrence
ClampedTermFrequency(text, query) ==
    LET terms == Split(Lower(query))
        words == WordCount(text)
    IN  IF words = 0 THEN 0
        ELSE Min(SumSeq([k \in 1..Len(terms) |->
                    (Count(Lower(text), terms[k]) * Unit) \div words]), Unit)

\* C6: every keyword score that enters a hybrid fusion is the clamped
\* term-frequency sum and lies in [0, 1], in SearchEngine.hybrid_search and
\* in VectorStore.hybrid_search
C6_KeywordScoreClamped ==
    /\ EngineHybridAnswered =>
        \A kr \in Range(response.keyword_results) :
            /\ kr.keyword_score \in 0..Unit
            /\ kr.keyword_score = ClampedTermFrequency(kr.chunk_text, response.query)
    /\ StoreHybridAnswered =>
        \A kr \in Range(response.keyword_results) :
            /\ kr.keyword_score \in 0..Unit
            /\ kr.keyword_score = ClampedTermFrequency(kr.text, response.query)

\* the response is the outcome of a hybrid search of the engine in which
\* exactly one branch raised
OneBranchFailed ==
    /\ response.api \in {"search_documents", "hybrid_search"}
    /\ response.search_type = "hybrid"
    /\ ~response.faults.construct
    /\ response.faults.semantic # response.faults.keyword

\* the results of the branch that did not raise, as that branch returns
\* them when it runs alone
SurvivingResults ==
    IF response.faults.semantic
    THEN SearchEngine_keyword_search(response.query, response.fetched, 0,
                                     response.filters, FALSE)
    ELSE SearchEngine_semantic_search(response.query, response.fetched, 0,
                                      response.filters, FALSE)

\* the weighted term of the surviving branch for one of its results
SurvivingScore(result) ==
    IF response.faults.semantic
    THEN result.keyword_score * response.weights[2]
    ELSE result.semantic_score * response.weights[1]

\* C7: when exactly one branch of a hybrid search raises, the search
\* succeeds and returns the page of the surviving branch's results, each
\* scored with that branch's weighted term only
C7_DegradesToSurvivor ==
    (response.api # "none" /\ OneBranchFailed) =>
        LET survivors == SurvivingResults
            rescored == [i \in 1..Len(survivors) |->
                            [survivors[i] EXCEPT !.final_score = SurvivingScore(survivors[i])]]
            ranked == SortedDesc(rescored, FinalScores(rescored))
        IN  /\ response.status = "ok"
            /\ response.sorted_results = ranked
            /\ response.results = Slice(ranked, response.offset,
                                        response.offset + response.limit)

\* C7 witness: one branch raised and the search returned results of the other
C7_Witness ==
    /\ response.api # "none"
    /\ OneBranchFailed
    /\ response.status = "ok"
    /\ response.results # <<>>
    /\ \E r \in Range(response.results) : r.final_score > 0

\* C8: a hybrid search both of whose branches raised ends in an error, and a
\* successful empty result means that no branch raised
C8_BothFailedIsError ==
    (/\ response.api \in {"search_documents", "hybrid_search"}
     /\ response.search_type = "hybrid") =>
        /\ (response.faults.semantic /\ response.faults.keyword)
              => response.status = "error"
        /\ (response.status = "ok" /\ response.results = <<>>)
              => (~response.faults.semantic /\ ~response.faults.keyword)

\* C9: every result of a search belongs to a document that satisfies the
\* filters of the request, in semantic, keyword and hybrid mode
C9_ResultsSatisfyFilters ==
    (response.api = "search_documents" /\ response.status = "ok") =>
        \A r \in Range(response.results) :
            /\ DocumentExists(r.document_id)
            /\ PassesFilters(DocumentById(r.document_id), response.filters)

\* C10: the vector index holds no entry of a deleted document, and no
\* search of the index or find-similar call returns a chunk of one
C10_DeleteCascadesToIndex ==
    \A d \in DeletedDocumentIds :
        /\ \A e \in Range(collection) : e.document_id # d
        /\ response.api \in {"store_hybrid_search", "find_similar_documents"} =>
              \A r \in Range(response.semantic_results) : r.document_id # d

\* the step in which delete_document_chunks has deleted and returns True
DeleteCompletes ==
    delete_call.status = "found" /\ delete_call'.status = "done"

\* C11: when delete_document_chunks(d) has done its work the index holds no
\* entry of document d, whatever was written while the call was in flight,
\* so that no query sees a part of d's entries
C11_DeleteRemovesEveryEntry ==
    [][DeleteCompletes =>
          \A i \in 1..Len(collection') :
              collection'[i].document_id # delete_call.document_id]_vars

\* the step is a step of the add_document_chunks call of writer w
WriterSteps(w) ==
    add_calls[w].status = "preparing" /\ add_calls'[w] # add_calls[w]

\* the entries a step has appended to the index
Appended == SubSeq(collection', Len(collection) + 1, Len(collection'))

\* C12: every step of an add_document_chunks call leaves the index as it
\* is or appends one entry for each chunk passed to the call, and that step
\* ends the call with True; a call that returns False has stored nothing
C12_BatchWrittenWhole ==
    [][\A w \in Writers :
          WriterSteps(w) =>
             \/ /\ collection' = collection
                /\ add_calls'[w].status = "done" => ~add_calls'[w].ok
             \/ /\ Len(collection') = Len(collection) + Len(add_calls[w].chunks)
                /\ SubSeq(collection', 1, Len(collection)) = collection
                /\ \A k \in 1..Len(add_calls[w].chunks) :
                      /\ Appended[k].document_id = add_calls[w].chunks[k].document_id
                      /\ Appended[k].chunk_index = add_calls[w].chunks[k].chunk_index
                /\ add_calls'[w] = [status |-> "done", ok |-> TRUE]]_vars

\* one writer has stored its batch while another call is part-way through
\* its embeddings and a delete is in flight
C12_Witness ==
    \E w, v \in Writers :
        /\ add_calls[w].status = "done" /\ add_calls[w].ok
        /\ Len(collection) >= 2
        /\ add_calls[v].status = "preparing"
        /\ Len(add_calls[v].embeddings) = 1
        /\ delete_call.status = "found"

\* the embedding chunk k of a call is stored with: the zero vector when the
\* encoder raised or the text is empty, the encoder's vector otherwise
ExpectedEmbedding(call, k) ==
    IF k \in call.raised \/ StripIsEmpty(call.chunks[k].text)
    THEN ZeroVector
    ELSE Encode(call.chunks[k].text)

\* C14: while a call still has embeddings to generate no step ends it, a
\* failed or empty chunk gets the zero vector, and when the batch is stored
\* every chunk is stored with its own embedding
C14_EmbeddingFailureIsZeroVector ==
    [][\A w \in Writers :
          WriterSteps(w) =>
             /\ Len(add_calls[w].embeddings) < Len(add_calls[w].chunks) =>
                   /\ add_calls'[w].status = "preparing"
                   /\ Len(add_calls'[w].embeddings) = Len(add_calls[w].embeddings) + 1
                   /\ \A k \in 1..Len(add_calls'[w].embeddings) :
                         add_calls'[w].embeddings[k] = ExpectedEmbedding(add_calls'[w], k)
             /\ (add_calls'[w].status = "done" /\ add_calls'[w].ok) =>
                   \A k \in 1..Len(add_calls[w].chunks) :
                      /\ Appended[k].text = add_calls[w].chunks[k].text
                      /\ Appended[k].embedding = ExpectedEmbedding(add_calls[w], k)]_vars

\* the index holds, of one document, a chunk whose encoding failed (zero
\* vector for a text the encoder maps elsewhere) next to a chunk with its
\* own embedding
C14_Witness ==
    \E i, j \in 1..Len(collection) :
        /\ collection[i].document_id = collection[j].document_id
        /\ collection[i].embedding = ZeroVector
        /\ ~StripIsEmpty(collection[i].text)
        /\ Encode(collection[i].text) # ZeroVector
        /\ collection[j].embedding # ZeroVector
        /\ collection[j].embedding = Encode(collection[j].text)

\* the index entries of the rows of a file name, as (document, ordinal, text)
IndexedChunksOf(name) ==
    {<<collection[i].chunk_index, collection[i].text>> :
        i \in {j \in 1..Len(collection) :
                 \E doc \in RowsByName(name) : doc.id = collection[j].document_id}}

PdfExtracted ==
    processor.op = "extract_text" /\ FileTypeLower(processor.file_type) = ".pdf"
Attempted(method) ==
    \E i \in 1..Len(processor.attempted) : processor.attempted[i] = method
\* the method raised or its text is shorter than the floor
UnderFloor(outcome) == outcome.raises \/ outcome.text.len < MinTextLength

\* C15: on a PDF the layout-aware extractor is tried exactly when the fast
\* text is under 100 characters or the fast method raised, OCR exactly when
\* the layout-aware text is under 100 characters too or raised, the fast text
\* is returned when nothing else was tried, and OCR reads at most 10 pages
C15_FallbackExactlyUnderFloor ==
    PdfExtracted =>
        /\ Attempted("fast")
        /\ Attempted("layout") <=> UnderFloor(processor.pdf.fast)
        /\ Attempted("ocr") <=>
              (UnderFloor(processor.pdf.fast) /\ UnderFloor(processor.pdf.layout))
        /\ ~Attempted("layout") => processor.text = processor.pdf.fast.text
        /\ processor.ocr_pages <= OcrPageLimit

\* the method yielded some text
YieldedText(outcome) == ~outcome.raises /\ outcome.text.len > 0

\* C16: extract_text raises nothing, an unsupported file type gives the
\* empty text, and a PDF gives the empty text only after all three methods
\* were tried and none of them yielded any text
C16_EmptyOnlyWhenNothingYielded ==
    processor.op = "extract_text" =>
        /\ ~processor.raised
        /\ FileTypeLower(processor.file_type) \notin {".pdf", ".docx", ".txt"}
              => processor.text = EmptyText
        /\ (PdfExtracted /\ processor.text.len = 0) =>
              /\ Attempted("fast") /\ Attempted("layout") /\ Attempted("ocr")
              /\ ~YieldedText(processor.pdf.fast)
              /\ ~YieldedText(processor.pdf.layout)

\* C17: cleaning a cleaned text changes nothing
C17_CleanTextIdempotent ==
    processor.op = "clean_text" =>
        clean_text_of(processor.cleaned) = processor.cleaned

\* a call of create_chunks on a normalized text has returned: clean_text
\* leaves no paragraph break in a text, and every text here has a sentence
NormalizedChunked ==
    processor.op = "create_chunks" /\ Len(processor.text) = 1

\* C18: a non-empty normalized text gives at least one chunk and no chunk
\* with an empty text, whatever strategy made the chunks
C18_AtLeastOneNonEmptyChunk ==
    NormalizedChunked =>
        /\ Len(processor.chunks) >= 1
        /\ \A i \in 1..Len(processor.chunks) : processor.chunks[i].text # <<>>

\* C19: the chunk_index values of the chunks of one call are exactly
\* 0..n-1, each once
C19_OrdinalsContiguous ==
    processor.op = "create_chunks" =>
        /\ {processor.chunks[i].chunk_index : i \in 1..Len(processor.chunks)}
              = 0..(Len(processor.chunks) - 1)
        /\ \A i, j \in 1..Len(processor.chunks) :
              processor.chunks[i].chunk_index = processor.chunks[j].chunk_index
                  => i = j

\* the sentences of the chunks of ordinal k and above, in ordinal order
RECURSIVE ConcatFromOrdinal(_, _, _)
ConcatFromOrdinal(chunks, k, i) ==
    IF k > Len(chunks) THEN <<>>
    ELSE IF i > Len(chunks) THEN ConcatFromOrdinal(chunks, k + 1, 1)
    ELSE IF chunks[i].chunk_index = k
    THEN chunks[i].text \o ConcatFromOrdinal(chunks, k, i + 1)
    ELSE ConcatFromOrdinal(chunks, k, i + 1)

\* C20: the chunk texts of a normalized text, put together in ordinal
\* order, are the sentences of the text: none dropped, repeated or moved
C20_ChunksReproduceText ==
    NormalizedChunked =>
        ConcatFromOrdinal(processor.chunks, 0, 1) = sent_tokenize(processor.text, 1)

\* C21: a request to process a document whose status is "processing" or
\* "completed" is not accepted as the start of a run and changes no row
C21_InFlightTriggerIsNoOp ==
    (response.api = "process_document"
        /\ response.status_before \in {"processing", "completed"}) =>
            response.status_code # 200

\* the tasks of the batch that began process_pdf_file and did not return yet
TasksInProcess(b) == {k \in 1..Len(b.tasks) : b.tasks[k].state = "awaiting"}

C23_OneResultPerFile ==
    in_flight.op = "process_all_pdfs" =>
        /\ Len(in_flight.results) <= Len(in_flight.worklist)
        /\ \A k \in 1..Len(in_flight.results) :
              /\ in_flight.results[k].file = in_flight.worklist[k]
              /\ in_flight.results[k].message # "none"
              /\ in_flight.results[k].success =
                    (in_flight.results[k].message \in
                        {"dry_run", "already_processed", "processed"})
        /\ in_flight.reported =>
              Len(in_flight.results) = Len(in_flight.worklist)

\* a reported run of two files whose first file failed and whose second file
\* was processed
C23_Witness ==
    /\ in_flight.op = "process_all_pdfs"
    /\ in_flight.reported
    /\ Len(in_flight.results) = 2
    /\ in_flight.results[1].message = "failed"
    /\ in_flight.results[2].message = "processed"

\* C29: after a run without --dry-run the counters already_processed,
\* successfully_processed, failed and skipped add up to total_found, whatever
\* the interleaving of the tasks of a batch was
C29_CountersSumToTotalFound ==
    (in_flight.op = "process_all_pdfs" /\ in_flight.reported /\ ~in_flight.dry_run) =>
        in_flight.stats.already_processed + in_flight.stats.successfully_processed
            + in_flight.stats.failed + in_flight.stats.skipped
        = in_flight.total_found

\* a reported run of one batch of two files, one counted as failed and one
\* as skipped
C29_Witness ==
    /\ in_flight.op = "process_all_pdfs"
    /\ in_flight.reported
    /\ ~in_flight.dry_run
    /\ in_flight.batch_size = 2
    /\ in_flight.total_found = 2
    /\ in_flight.stats.failed = 1
    /\ in_flight.stats.skipped = 1

\* C24: a search request whose search_type is none of semantic, keyword and
\* hybrid, whose limit is above 50 or below zero, or whose offset is below
\* zero is rejected before dispatch: no query is run, nothing is logged
C24_MalformedRejectedBeforeDispatch ==
    (/\ response.api = "search_request"
     /\ \/ response.search_type \notin SearchTypes
        \/ response.limit > MaxSearchLimit
        \/ response.limit < 0
        \/ response.offset < 0) =>
        /\ response.status = 422
        /\ response.queries_run = {}
        /\ response.logged = <<>>

\* the text without the tags <mark> and </mark>, from position i on
RECURSIVE StripTags(_, _)
StripTags(text, i) ==
    IF i > Len(text) THEN <<>>
    ELSE IF MatchAt(text, OpenTag, i) THEN StripTags(text, i + Len(OpenTag))
    ELSE IF MatchAt(text, CloseTag, i) THEN StripTags(text, i + Len(CloseTag))
    ELSE <<text[i]>> \o StripTags(text, i + 1)

\* C25: highlighting only inserts mark tags: highlighted_text without its
\* <mark> and </mark> tags is chunk_text, letter case included, for every
\* result of a search
C25_HighlightOnlyInsertsTags ==
    response.api = "search_request" =>
        \A i \in 1..Len(response.results) :
            StripTags(response.highlighted[i], 1) = response.results[i].chunk_text

\* len(chunk.split()) of a chunk made of these sentences
ChunkWords(sentences) ==
    SumSeq([i \in 1..Len(sentences) |-> SentenceWords(sentences[i].kind)])

\* the sentences of the chunks from chunk i on, in the order of the list
RECURSIVE ChunkSentences(_, _)
ChunkSentences(chunks, i) ==
    IF i > Len(chunks) THEN <<>>
    ELSE chunks[i].text \o ChunkSentences(chunks, i + 1)

\* create_chunks returned the chunks of the sentence packing
SentencesPacked ==
    processor.op = "create_chunks" /\ processor.raises_at = None

\* C26: the packed chunks hold the sentences of the text in order; a text of
\* fewer than 3 sentences is one chunk; with 3 sentences or more a chunk is
\* closed exactly when the next sentence would bring it above CHUNK_SIZE
\* words, so a chunk of several sentences has at most CHUNK_SIZE words and
\* an oversized chunk is one sentence
C26_SentencePacking ==
    SentencesPacked =>
        LET sentences == sent_tokenize(processor.text, 1)
            chunks == processor.chunks
        IN  /\ ChunkSentences(chunks, 1) = sentences
            /\ Len(sentences) < 3 => Len(chunks) = 1
            /\ Len(sentences) >= 3 =>
                  /\ \A k \in 1..Len(chunks) :
                        /\ chunks[k].text # <<>>
                        /\ Len(chunks[k].text) > 1 =>
                              ChunkWords(chunks[k].text) <= CHUNK_SIZE
                  /\ \A k \in 1..(Len(chunks) - 1) :
                        ChunkWords(chunks[k].text)
                            + ChunkWords(<<chunks[k + 1].text[1]>>) > CHUNK_SIZE

\* a text of 3 sentences or more packed into a chunk of several sentences
\* and an oversized chunk of one sentence
C26_Witness ==
    /\ SentencesPacked
    /\ Len(sent_tokenize(processor.text, 1)) >= 3
    /\ \E k \in 1..Len(processor.chunks) : Len(processor.chunks[k].text) > 1
    /\ \E k \in 1..Len(processor.chunks) :
          ChunkWords(processor.chunks[k].text) > CHUNK_SIZE

\* C28: the statutes extract_metadata returns hold no two strings that are
\* equal when letter case is ignored
C28_EntitiesDistinctIgnoringCase ==
    processor.op = "extract_metadata" =>
        \A a, b \in processor.statutes : Lower(a) = Lower(b) => a = b

\* C27: a hybrid query dispatches its two branches concurrently: both are
\* dispatched before either has completed, and the merge starts only after
\* both have completed
C27_BranchesDispatchedConcurrently ==
    in_flight.op = "hybrid_search" =>
        \A i, j \in 1..Len(in_flight.events) :
            /\ (/\ in_flight.events[i] \in {"semantic_dispatched", "keyword_dispatched"}
                /\ in_flight.events[j] \in {"semantic_completed", "keyword_completed"})
                    => i < j
            /\ (/\ in_flight.events[i] \in {"semantic_completed", "keyword_completed"}
                /\ in_flight.events[j] = "merged") => i < j

\* an update of a chunk the index held when the call came
UpdatesExistingEntry ==
    in_flight.op = "update_chunk_embedding" /\ in_flight.before # <<>>

\* C30: an update_chunk_embedding that returns False leaves the entry of
\* the chunk as it was, vector and metadata; and at no moment of an update
\* is the chunk missing from the index
C30_FailedUpdateLeavesEntry ==
    UpdatesExistingEntry =>
        /\ (in_flight.status = "done" /\ ~in_flight.ok) =>
               SelectSeq(collection,
                         LAMBDA e : EntryId(e) = EntryId(in_flight.chunk))
                   = in_flight.before
        /\ \E i \in 1..Len(collection) :
               EntryId(collection[i]) = EntryId(in_flight.chunk)

====
